---- MODULE Spec2Model ----
(***************************************************************************)
(* Model of the Raspberry Pi coordinator of src/task2.py: the operator     *)
(* receiver (recv_android), the action dispatcher (rpi_action,             *)
(* change_mode, clear_queues, add_navigate_path), the command sequencer    *)
(* (command_follower), the acknowledgement listener (recv_stm), the        *)
(* operator sender (android_sender) and the front-distance sensor loop     *)
(* (set_us_flag).                                                          *)
(*                                                                         *)
(* Strings that the code inspects with startswith are sequences of         *)
(* one-character strings, so prefix tests are computed, not assumed.       *)
(* Every entry of the command queue carries, next to the command, the      *)
(* sequence number of its enqueue (id); every waypoint carries the id of   *)
(* the command it was enqueued with.  The ids are history only: no action  *)
(* of the program reads them.                                              *)
(***************************************************************************)
EXTENDS Naturals, Integers, Sequences, FiniteSets, TLC

\* ------------------------------------------------------------------ bounds
\* number of operator messages delivered in a session that starts in Manual mode
MaxMsgs == 3
\* number of operator messages delivered in a session that starts in Path mode
MaxPathMsgs == 2
\* number of `single-obstacle` messages among the latter
MaxLoads == 1
\* number of outbound messages the operator sender has not yet taken off
\* android_queue; a producer's put waits for room
MaxOutbound == 2
\* number of operator messages delivered in a session of `control` messages
MaxControlMsgs == 2
\* number of front-distance samples in one run of the sensor loop
MaxSamples == 8
MaxDrops == 2
MaxUnknown == 1
MaxIrSamples == 3
MaxRunSamples == 3
MaxRunIrSamples == 2
MaxXdist == 40
MaxLateralSteps == 20
MaxReconnectMsgs == 2

\* --------------------------------------------------------- front distance
\* distances are in tenths of a centimetre: 28.0 cm is 28 * 10
us_threshold == 28 * 10

\* the gap measurement of fastest_car: readings below gap_limit qualify,
\* gap_readings readings are taken, gap_offset is added to the largest
gap_limit == 150
gap_readings == 5
gap_offset == 70
\* sensors.distance() readings: well below, just below, at, just above and
\* well above the threshold
Distances == {50, us_threshold - 1, us_threshold, us_threshold + 1, 600, 1500}

\* sensors.readL and sensors.readR return 1 or 0
IrReadings == {0, 1}

\* ------------------------------------------------------- command vocabulary
FW10 == <<"F", "W", "1", "0">>
FW30 == <<"F", "W", "3", "0">>
NOOP == <<"N", "O", "O", "P">>
FIN  == <<"F", "I", "N">>
DT20 == <<"D", "T", "2", "0">>
FR00 == <<"F", "R", "0", "0">>
FL00 == <<"F", "L", "0", "0">>
BR00 == <<"B", "R", "0", "0">>
SNAPS == <<"S", "N", "A", "P", "S">>
SNAPE == <<"S", "N", "A", "P", "E">>
SNAPN == <<"S", "N", "A", "P", "N">>
SNAPW == <<"S", "N", "A", "P", "W">>
WN == <<"W", "N">>
MANSNAP == <<"M", "A", "N", "S", "N", "A", "P">>
XX == <<"X", "X">>
FC01 == <<"F", "C", "0", "1">>
FW__ == <<"F", "W", "-", "-">>
STOP == <<"S", "T", "O", "P">>
FR30 == <<"F", "R", "3", "0">>
FL30 == <<"F", "L", "3", "0">>
BW05 == <<"B", "W", "0", "5">>
BL30 == <<"B", "L", "3", "0">>
BR30 == <<"B", "R", "3", "0">>
ZZ01 == <<"Z", "Z", "0", "1">>
ZZ02 == <<"Z", "Z", "0", "2">>
ZZ03 == <<"Z", "Z", "0", "3">>
ZZ04 == <<"Z", "Z", "0", "4">>

\* str.startswith(prefix)
StartsWith(s, p) == Len(s) >= Len(p) /\ SubSeq(s, 1, Len(p)) = p

\* str.replace("SNAP", "") on a command that starts with SNAP
StripSnap(s) == SubSeq(s, 5, Len(s))

stm32_prefixes ==
    { <<"F", "S">>, <<"B", "S">>, <<"F", "W">>, <<"B", "W">>, <<"F", "L">>,
      <<"F", "R">>, <<"B", "L">>, <<"B", "R">>, <<"T", "L">>, <<"T", "R">>,
      <<"I", "R">>, <<"A">>, <<"C">>, <<"D", "T">>, <<"S", "T", "O", "P">>,
      <<"Z", "Z">> }

\* command.startswith(stm32_prefixes)
IsStmCommand(c) == \E p \in stm32_prefixes : StartsWith(c, p)

hardcoded_path ==
    << DT20, SNAPS, NOOP,
       FR00, FL00, FW30, BR00, FW10, SNAPE, NOOP,
       FR00, FL00, FW30, BR00, FW10, SNAPN, NOOP,
       FR00, FL00, FW30, BR00, FW10, SNAPW, NOOP,
       FIN >>

\* the commands an operator sends in `manual` messages: in a session that
\* starts in Manual mode one of each branch of the sequencer's dispatch (XX is
\* outside the vocabulary), in a session that starts in Path mode the end marker
ManualCommands(s) ==
    IF s = "manual" THEN {FW10, NOOP, FIN, WN, MANSNAP, XX, SNAPS}
    ELSE IF s = "run" THEN {FC01}
    ELSE {FIN}

\* results of the image endpoint: right arrow, left arrow, another id, and
\* no result (the request failed and snap_and_rec_2 returned None)
ArrowResults == {"38", "39", "40", "None"}

\* self.ultrasonic_is_clear_samula = Value('i', 1): nothing writes it later
ultrasonic_is_clear_samula == 1

\* the decimal digits of n, most significant first
RECURSIVE DecDigits(_)
DecDigits(n) ==
    IF n < 10 THEN << <<"0", "1", "2", "3", "4", "5", "6", "7", "8", "9">>[n + 1] >>
    ELSE DecDigits(n \div 10) \o DecDigits(n % 10)

\* f"{n:02d}": the digits of n, padded with a zero to two characters
Format02(n) == IF n < 10 THEN << "0" >> \o DecDigits(n) ELSE DecDigits(n)

\* f"FW{n:02d}"
ForwardBy(n) == << "F", "W" >> \o Format02(n)

\* chunks that are all of the first kind
ForwardChunksWhole(n) == << ForwardBy(n) >>

\* a distance as forward commands: one if n <= 99, else FW99 and the rest,
\* and the rest again as FW99 and the remainder unless it is below 99
ForwardChunks(n) ==
    IF n <= 99 THEN << ForwardBy(n) >>
    ELSE IF n - 99 < 99 THEN << ForwardBy(99), ForwardBy(n - 99) >>
    ELSE << ForwardBy(99), ForwardBy(99), ForwardBy(n - 99 - 99) >>

\* clear_second_obstacle_p1: the first turn
P1Turn(dir) ==
    IF dir = "38" THEN << FR30 >> ELSE IF dir = "39" THEN << FL30 >> ELSE << FR30 >>

\* clear_second_obstacle_p1: along the width of obstacle 2
P1Width(dir) ==
    IF dir = "38" THEN << FL30, FW10 >>
    ELSE IF dir = "39" THEN << FR30, FW10 >>
    ELSE << FL30, FW10 >>

\* clear_second_obstacle_p2: the turn and doubled_xdist as forward commands
P2Script(dir, xdist) ==
    LET doubled_xdist == (xdist * 2) + 30 + (IF xdist <= 20 THEN 20 ELSE 0)
    IN  (IF dir = "38" THEN << FL30 >> ELSE IF dir = "39" THEN << FR30 >> ELSE << FL30 >>)
           \o ForwardChunks(doubled_xdist)

\* clear_second_obstacle_p3
P3Script(dir) ==
    IF dir = "38" THEN << FL30 >> ELSE IF dir = "39" THEN << FR30 >> ELSE << FL30 >>

\* return_home: the turn after the gap distance
ReturnHomeTurnScript(dir) ==
    IF dir = "38" THEN << FL30 >> ELSE IF dir = "39" THEN << FR30 >> ELSE << FL30 >>

\* a return home that makes the correction when the long-range flag is 1
ReturnHomeRestScriptCorrecting(dir, xdist) ==
    LET single_xdist == ((xdist * 2) \div 4) + 20
    IN  (IF ultrasonic_is_clear_samula = 1
           THEN IF dir = "39" THEN << BR30, FW30, FR30 >> ELSE << BL30, FW30, FL30 >>
           ELSE << >>)
        \o ForwardChunks(single_xdist)
        \o (IF dir = "39" THEN << FL30 >> ELSE << FR30 >>)

\* return_home after the turn: the samula script if that flag is 0,
\* single_xdist as forward commands, the last turn
ReturnHomeRestScript(dir, xdist) ==
    LET single_xdist == ((xdist * 2) \div 4) + 20
    IN  (IF ultrasonic_is_clear_samula = 0
           THEN IF dir = "39" THEN << BR30, FW30, FR30 >> ELSE << BL30, FW30, FL30 >>
           ELSE << >>)
        \o ForwardChunks(single_xdist)
        \o (IF dir = "39" THEN << FL30 >> ELSE << FR30 >>)

\* a drive that watches the left flag whatever the result
MovePastFlagLeft(dir, left, right) == left

\* the proximity flag that move_past_obstacle_irl / _irr watches
MovePastFlag(dir, left, right) == IF dir = "39" THEN right ELSE left

\* a script that is the same for every result
ClearFirstObstacleScriptRightOnly(dir) == << FR30, FL30, FL30, FR30 >>

\* clear_first_obstacle: the hardcoded_path of the branch that dir selects
ClearFirstObstacleScript(dir) ==
    IF dir = "38" THEN << FR30, FL30, FL30, FR30 >>
    ELSE IF dir = "39" THEN << FL30, FR30, FR30, FL30 >>
    ELSE << FR30, FL30, FL30, FR30 >>

\* the inbound operator messages of a session
OperatorMessages(s) ==
    [cat : {"mode"}, value : {<<"manual">>, <<"path">>}]
      \cup [cat : {"manual"}, value : ManualCommands(s)]
      \cup [cat : {"single-obstacle"}, value : {<<>>}]
      \cup [cat : {"control"}, value : {<<"s", "t", "a", "r", "t">>}]

NoMessage == [cat |-> "none", value |-> <<>>]
NoCommand == [cmd |-> <<>>, id |-> 0]
NoAck     == [cmd |-> <<>>, src |-> "none", id |-> 0]

AndroidMessage(cat, value) == [cat |-> cat, value |-> value]
PiAction(cat, value) == [cat |-> cat, value |-> value]

\* 'path' if self.robot_mode.value == 1 else 'manual'
ModeName(m) == IF m = 1 THEN "path" ELSE "manual"

VARIABLES
    robot_mode,        \* 0: manual, 1: path
    unpause,           \* the unpause event
    movement_lock,     \* TRUE while the movement lock is held
    android_queue,     \* outbound messages for the operator
    rpi_action_queue,  \* PiActions for the dispatcher
    command_queue,     \* movement commands, each with its enqueue id
    path_queue,        \* planned waypoints, each with the id of its command
    stm_link,          \* transmissions the controller has not answered yet
    next_id,           \* number of command_queue.put calls so far, plus one
    session,           \* "manual" or "path": the mode the session starts in
    msgs_left,         \* operator messages still to be delivered
    loads_left,        \* `single-obstacle` messages still to be delivered
    ultrasonic_is_clear,   \* the front flag: 1 clear, 0 blocked
    obstacle_count_short,  \* set_us_flag's count of consecutive near samples
    compensate_ydist,      \* the last front-distance sample, in tenths of a cm
    samples_left,          \* samples the sensor loop still takes
    ir_left_is_clear,      \* the left proximity flag: 1 clear, 0 blocked
    ir_right_is_clear,     \* the right proximity flag: 1 clear, 0 blocked
    wall_left, wall_right, \* the last raw reading of each proximity loop
    irl_samples_left,      \* samples the left proximity loop still takes
    irr_samples_left,      \* samples the right proximity loop still takes
    ra_pc, ra_msg,     \* operator receiver: position, message in hand
    rpi_pc, rpi_act,   \* action dispatcher: position, action in hand
    rpi_i,             \* action dispatcher: commands of hardcoded_path put so far
    rpi_id,            \* action dispatcher: enqueue id of the command just put
    cf_pc, cf_command, \* command sequencer: position, command in hand
    stm_pc, stm_msg,   \* ack listener: position, acknowledged transmission
    unknown_left,      \* controller messages without the ACK prefix still to come
    cf_sent,           \* id of the command the sequencer transmitted last (0: none)
    drain_id,          \* next_id when the last accepted mode transition began
    fin_done,          \* FIN was processed and the unpause event not set since
    fc_ret,            \* fastest run: where its clear_queues returns to
    first_arrow_dir,   \* fastest run: first classification result
    fc_i,              \* fastest run: commands of the obstacle-1 script put so far
    gap_i,             \* fastest run: iterations of the gap loop done
    max_list,          \* fastest run: the gap loop's list of readings
    between_obstacles_ydist,  \* the stored gap distance, in cm
    second_arrow_dir,  \* fastest run: second classification result
    total_xdist,       \* fastest run: distance driven along obstacle 2, in cm
    arrow_requests,    \* classification requests made for obstacle 1 and 2
    arrow_reads,       \* branch selections made on the result of obstacle 1 and 2
    rc_pc,             \* reconnect handler: position
    android_dropped,   \* the event "operator link dropped"
    proc_recv_android,     \* number of operator receiver processes alive
    proc_android_sender,   \* number of operator sender processes alive
    kill_sent,         \* processes sent a kill that has not ended them yet
    snd_pc, snd_msg,   \* operator sender: position, message in hand
    snd_no,            \* operator sender: enqueue number of the message in hand
    aq_taken,          \* messages taken from the outbound queue so far
    sent_no,           \* enqueue number of the message transmitted last (0: none)
    drops_left,        \* link drops still to happen
    connect_drops      \* drops_left when the handler reconnected last

vars == << ultrasonic_is_clear, obstacle_count_short, compensate_ydist, samples_left,
           ir_left_is_clear, ir_right_is_clear, wall_left, wall_right,
           snd_pc, snd_msg, snd_no, aq_taken, sent_no,
           second_arrow_dir, total_xdist, arrow_requests, arrow_reads,
           irl_samples_left, irr_samples_left,
           robot_mode, unpause, movement_lock, android_queue, rpi_action_queue,
           command_queue, path_queue, stm_link, next_id, session, msgs_left, loads_left,
           ra_pc, ra_msg, rpi_pc, rpi_act, rpi_i, rpi_id, cf_pc, cf_command,
           stm_pc, stm_msg, unknown_left, cf_sent, drain_id, fin_done,
           fc_ret, first_arrow_dir, fc_i, gap_i, max_list, between_obstacles_ydist,
           rc_pc, android_dropped, proc_recv_android, proc_android_sender, kill_sent,
           drops_left, connect_drops >>

\* groups used in UNCHANGED clauses
shared  == << robot_mode, unpause, movement_lock >>
us_vars == << ultrasonic_is_clear, obstacle_count_short, compensate_ydist, samples_left >>
fc2_vars == << second_arrow_dir, total_xdist, arrow_requests, arrow_reads >>
snd_vars == << snd_pc, snd_msg, snd_no, aq_taken, sent_no >>
ir_vars == << ir_left_is_clear, ir_right_is_clear, wall_left, wall_right,
             irl_samples_left, irr_samples_left >>
ra_vars == << ra_pc, ra_msg, session, msgs_left, loads_left >>
rpi_vars == << rpi_pc, rpi_act, rpi_i, rpi_id >>
cf_vars == << cf_pc, cf_command, cf_sent >>
stm_vars == << stm_pc, stm_msg, unknown_left >>
hist_vars == << drain_id, fin_done >>
fc_vars == << fc_ret, first_arrow_dir, fc_i, gap_i, max_list, between_obstacles_ydist >>
rc_vars == << rc_pc, android_dropped, proc_recv_android, proc_android_sender, kill_sent,
             drops_left, connect_drops >>
aux_vars == << hist_vars, fc_vars, rc_vars >>

\* android_queue.put of n messages finds room for them
HasRoom(q, n) == Len(q) + n <= MaxOutbound

\* command_queue.put(c)
PutCommand(q, c, n) == Append(q, [cmd |-> c, id |-> n])

\* path_queue.put({"d": 0, "s": -1, "x": 1, "y": 1})
PutWaypoint(q, n) == Append(q, [x |-> 1, y |-> 1, d |-> 0, s |-> -1, id |-> n])

\* stm_link.send(c) by task src on behalf of queued command n (0: none)
StmSend(l, c, src, n) == Append(l, [cmd |-> c, src |-> src, id |-> n])

\* everything the tasks share is empty and every task is at the top of its loop
Idle ==
    /\ unpause = FALSE
    /\ movement_lock = FALSE
    /\ android_queue = << >>
    /\ rpi_action_queue = << >>
    /\ command_queue = << >>
    /\ path_queue = << >>
    /\ stm_link = << >>
    /\ next_id = 1
    /\ ra_pc = "recv" /\ ra_msg = NoMessage
    /\ rpi_pc = "get" /\ rpi_act = NoMessage /\ rpi_i = 0 /\ rpi_id = 0
    /\ cf_pc = "get" /\ cf_command = NoCommand
    /\ stm_pc = "recv" /\ stm_msg = NoAck
    /\ cf_sent = 0
    /\ ultrasonic_is_clear = 1
    /\ obstacle_count_short = 0
    /\ compensate_ydist = 0
    /\ drain_id = 1 /\ fin_done = FALSE
    /\ fc_ret = << >> /\ first_arrow_dir = "none" /\ fc_i = 0 /\ gap_i = 0
    /\ max_list = << >> /\ between_obstacles_ydist = 0
    /\ second_arrow_dir = "none" /\ total_xdist = 0
    /\ arrow_requests = << 0, 0 >> /\ arrow_reads = << 0, 0 >>
    /\ rc_pc = "wait" /\ android_dropped = FALSE /\ connect_drops = 0
    /\ proc_recv_android = 1 /\ proc_android_sender = 1 /\ kill_sent = {}
    /\ snd_pc = "get" /\ snd_msg = NoMessage /\ snd_no = 0 /\ aq_taken = 0 /\ sent_no = 0
    /\ ir_left_is_clear = 1 /\ ir_right_is_clear = 1 /\ wall_left = 1 /\ wall_right = 1

\* after start(): Manual mode, the start-up messages delivered, the start-up
\* buzzer played; the operator sends mode changes and manual commands
InitManual ==
    /\ Idle
    /\ robot_mode = 0
    /\ session = "manual"
    /\ msgs_left = MaxMsgs
    /\ loads_left = 0
    /\ samples_left = 0
    /\ drops_left = 0
    /\ unknown_left = MaxUnknown
    /\ irl_samples_left = 0 /\ irr_samples_left = 0

\* after a first change to Path mode, its message delivered and its buzzer
\* played: the operator goes on with single-obstacle, mode and manual messages
InitPath ==
    /\ Idle
    /\ robot_mode = 1
    /\ session = "path"
    /\ msgs_left = MaxPathMsgs
    /\ loads_left = MaxLoads
    /\ samples_left = 0
    /\ drops_left = 0
    /\ unknown_left = 0
    /\ irl_samples_left = 0 /\ irr_samples_left = 0

\* the front sensor loop on its own: no operator message, the other tasks
\* wait at the top of their loops
InitSensor ==
    /\ Idle
    /\ robot_mode = 0
    /\ session = "sensor"
    /\ msgs_left = 0
    /\ loads_left = 0
    /\ samples_left = MaxSamples
    /\ drops_left = 0
    /\ unknown_left = 0
    /\ irl_samples_left = 0 /\ irr_samples_left = 0

\* Path mode as in InitPath: the operator loads the fixed path once and sends
\* `control` `start` messages
InitControl ==
    /\ Idle
    /\ robot_mode = 1
    /\ session = "control"
    /\ msgs_left = MaxControlMsgs
    /\ loads_left = 1
    /\ samples_left = 0
    /\ drops_left = 0
    /\ unknown_left = 0
    /\ irl_samples_left = 0 /\ irr_samples_left = 0

\* Manual mode as in InitManual: the operator starts a fastest run and the
\* front sensor loop takes samples
InitRun ==
    /\ Idle
    /\ robot_mode = 0
    /\ session = "run"
    /\ msgs_left = 2
    /\ loads_left = 0
    /\ samples_left = MaxSamples
    /\ drops_left = 0
    /\ unknown_left = 0
    /\ irl_samples_left = 0 /\ irr_samples_left = 0

\* a fastest run at the start of the gap measurement: the forward command,
\* the stop and the obstacle-1 script are transmitted and acknowledged, the
\* front sensor loop has seen the first obstacle and takes further samples
InitGap ==
    /\ robot_mode = 0
    /\ unpause = FALSE
    /\ movement_lock = FALSE
    /\ android_queue = << >>
    /\ rpi_action_queue = << >>
    /\ command_queue = << >>
    /\ path_queue = << >>
    /\ stm_link = << >>
    /\ next_id = 7
    /\ ra_pc = "gap_test" /\ ra_msg = [cat |-> "manual", value |-> FC01]
    /\ rpi_pc = "get" /\ rpi_act = NoMessage /\ rpi_i = 0 /\ rpi_id = 0
    /\ cf_pc = "get" /\ cf_command = NoCommand
    /\ stm_pc = "recv" /\ stm_msg = NoAck
    /\ cf_sent = 6
    /\ ultrasonic_is_clear = 0
    /\ obstacle_count_short = 2
    /\ compensate_ydist = us_threshold - 1
    /\ drain_id = 1 /\ fin_done = FALSE
    /\ fc_ret = << >> /\ first_arrow_dir = "38" /\ fc_i = 4 /\ gap_i = 0
    /\ max_list = << >> /\ between_obstacles_ydist = 0
    /\ second_arrow_dir = "none" /\ total_xdist = 0
    /\ arrow_requests = << 1, 0 >> /\ arrow_reads = << 1, 0 >>
    /\ rc_pc = "wait" /\ android_dropped = FALSE /\ connect_drops = 0
    /\ proc_recv_android = 1 /\ proc_android_sender = 1 /\ kill_sent = {}
    /\ snd_pc = "get" /\ snd_msg = NoMessage /\ snd_no = 0 /\ aq_taken = 0 /\ sent_no = 0
    /\ ir_left_is_clear = 1 /\ ir_right_is_clear = 1 /\ wall_left = 1 /\ wall_right = 1
    /\ session = "run"
    /\ msgs_left = 0
    /\ loads_left = 0
    /\ samples_left = MaxSamples
    /\ drops_left = 0
    /\ unknown_left = 0
    /\ irl_samples_left = 0 /\ irr_samples_left = 0

\* a fastest run after the gap measurement has stored 27 + 70: the second
\* approach is about to start, the sensor loops take further samples
InitObstacle2 ==
    /\ robot_mode = 0
    /\ unpause = FALSE
    /\ movement_lock = FALSE
    /\ android_queue = << >>
    /\ rpi_action_queue = << >>
    /\ command_queue = << >>
    /\ path_queue = << >>
    /\ stm_link = << >>
    /\ next_id = 7
    /\ ra_pc = "mu_check" /\ ra_msg = [cat |-> "manual", value |-> FC01]
    /\ rpi_pc = "get" /\ rpi_act = NoMessage /\ rpi_i = 0 /\ rpi_id = 0
    /\ cf_pc = "get" /\ cf_command = NoCommand
    /\ stm_pc = "recv" /\ stm_msg = NoAck
    /\ cf_sent = 6
    /\ ultrasonic_is_clear = 0
    /\ obstacle_count_short = 2
    /\ compensate_ydist = us_threshold - 1
    /\ drain_id = 1 /\ fin_done = FALSE
    /\ fc_ret = << "detect2" >> /\ first_arrow_dir = "38" /\ fc_i = 4 /\ gap_i = 5
    /\ max_list = << 27 >> /\ between_obstacles_ydist = 27 + gap_offset
    /\ second_arrow_dir = "none" /\ total_xdist = 0
    /\ arrow_requests = << 1, 0 >> /\ arrow_reads = << 1, 0 >>
    /\ rc_pc = "wait" /\ android_dropped = FALSE /\ connect_drops = 0
    /\ proc_recv_android = 1 /\ proc_android_sender = 1 /\ kill_sent = {}
    /\ snd_pc = "get" /\ snd_msg = NoMessage /\ snd_no = 0 /\ aq_taken = 0 /\ sent_no = 0
    /\ ir_left_is_clear = 1 /\ ir_right_is_clear = 1 /\ wall_left = 1 /\ wall_right = 1
    /\ session = "run"
    /\ msgs_left = 0
    /\ loads_left = 0
    /\ samples_left = MaxRunSamples
    /\ drops_left = 0
    /\ unknown_left = 0
    /\ irl_samples_left = MaxRunIrSamples /\ irr_samples_left = MaxRunIrSamples

\* a fastest run at the start of clear_second_obstacle_p2, for the lateral
\* distances the drive along obstacle 2 can have accumulated: it adds 10 for
\* every FW10 and puts at least one
InitCross ==
    /\ robot_mode = 0
    /\ unpause = FALSE
    /\ movement_lock = FALSE
    /\ android_queue = << >>
    /\ rpi_action_queue = << >>
    /\ command_queue = << >>
    /\ path_queue = << >>
    /\ stm_link = << >>
    /\ next_id = 7
    /\ ra_pc = "p2_turn" /\ ra_msg = [cat |-> "manual", value |-> FC01]
    /\ rpi_pc = "get" /\ rpi_act = NoMessage /\ rpi_i = 0 /\ rpi_id = 0
    /\ cf_pc = "get" /\ cf_command = NoCommand
    /\ stm_pc = "recv" /\ stm_msg = NoAck
    /\ cf_sent = 6
    /\ ultrasonic_is_clear = 0
    /\ obstacle_count_short = 2
    /\ compensate_ydist = us_threshold - 1
    /\ drain_id = 1 /\ fin_done = FALSE
    /\ fc_ret = << >> /\ first_arrow_dir = "38" /\ fc_i = 0 /\ gap_i = 5
    /\ max_list = << 27 >> /\ between_obstacles_ydist = 27 + gap_offset
    /\ second_arrow_dir \in ArrowResults
    /\ total_xdist \in {10 * k : k \in 1 .. MaxLateralSteps}
    /\ arrow_requests = << 1, 1 >> /\ arrow_reads = << 1, 1 >>
    /\ rc_pc = "wait" /\ android_dropped = FALSE /\ connect_drops = 0
    /\ proc_recv_android = 1 /\ proc_android_sender = 1 /\ kill_sent = {}
    /\ snd_pc = "get" /\ snd_msg = NoMessage /\ snd_no = 0 /\ aq_taken = 0 /\ sent_no = 0
    /\ ir_left_is_clear = 1 /\ ir_right_is_clear = 1 /\ wall_left = 1 /\ wall_right = 1
    /\ session = "run"
    /\ msgs_left = 0
    /\ loads_left = 0
    /\ samples_left = 0
    /\ drops_left = 0
    /\ unknown_left = 0
    /\ irl_samples_left = 0 /\ irr_samples_left = 0

\* the same point of a fastest run, with an operator link that can fail once
InitRunDrop ==
    /\ robot_mode = 0
    /\ unpause = FALSE
    /\ movement_lock = FALSE
    /\ android_queue = << >>
    /\ rpi_action_queue = << >>
    /\ command_queue = << >>
    /\ path_queue = << >>
    /\ stm_link = << >>
    /\ next_id = 7
    /\ ra_pc = "mu_check" /\ ra_msg = [cat |-> "manual", value |-> FC01]
    /\ rpi_pc = "get" /\ rpi_act = NoMessage /\ rpi_i = 0 /\ rpi_id = 0
    /\ cf_pc = "get" /\ cf_command = NoCommand
    /\ stm_pc = "recv" /\ stm_msg = NoAck
    /\ cf_sent = 6
    /\ ultrasonic_is_clear = 0
    /\ obstacle_count_short = 2
    /\ compensate_ydist = us_threshold - 1
    /\ drain_id = 1 /\ fin_done = FALSE
    /\ fc_ret = << "detect2" >> /\ first_arrow_dir = "38" /\ fc_i = 4 /\ gap_i = 5
    /\ max_list = << 27 >> /\ between_obstacles_ydist = 27 + gap_offset
    /\ second_arrow_dir = "none" /\ total_xdist = 0
    /\ arrow_requests = << 1, 0 >> /\ arrow_reads = << 1, 0 >>
    /\ rc_pc = "wait" /\ android_dropped = FALSE /\ connect_drops = 0
    /\ proc_recv_android = 1 /\ proc_android_sender = 1 /\ kill_sent = {}
    /\ snd_pc = "get" /\ snd_msg = NoMessage /\ snd_no = 0 /\ aq_taken = 0 /\ sent_no = 0
    /\ ir_left_is_clear = 1 /\ ir_right_is_clear = 1 /\ wall_left = 1 /\ wall_right = 1
    /\ session = "run"
    /\ msgs_left = 0
    /\ loads_left = 0
    /\ samples_left = 1
    /\ drops_left = 1
    /\ unknown_left = 0
    /\ irl_samples_left = 1 /\ irr_samples_left = 1

\* a fastest run whose first classification has answered: clear_first_obstacle
\* is about to start
InitFirstObstacle ==
    /\ robot_mode = 0
    /\ unpause = FALSE
    /\ movement_lock = FALSE
    /\ android_queue = << >>
    /\ rpi_action_queue = << >>
    /\ command_queue = << >>
    /\ path_queue = << >>
    /\ stm_link = << >>
    /\ next_id = 3
    /\ ra_pc = "cfo" /\ ra_msg = [cat |-> "manual", value |-> FC01]
    /\ rpi_pc = "get" /\ rpi_act = NoMessage /\ rpi_i = 0 /\ rpi_id = 0
    /\ cf_pc = "get" /\ cf_command = NoCommand
    /\ stm_pc = "recv" /\ stm_msg = NoAck
    /\ cf_sent = 2
    /\ ultrasonic_is_clear = 0
    /\ obstacle_count_short = 2
    /\ compensate_ydist = us_threshold - 1
    /\ drain_id = 1 /\ fin_done = FALSE
    /\ fc_ret = << >> /\ first_arrow_dir \in ArrowResults /\ fc_i = 0 /\ gap_i = 0
    /\ max_list = << >> /\ between_obstacles_ydist = 0
    /\ second_arrow_dir = "none" /\ total_xdist = 0
    /\ arrow_requests = << 1, 0 >> /\ arrow_reads = << 0, 0 >>
    /\ rc_pc = "wait" /\ android_dropped = FALSE /\ connect_drops = 0
    /\ proc_recv_android = 1 /\ proc_android_sender = 1 /\ kill_sent = {}
    /\ snd_pc = "get" /\ snd_msg = NoMessage /\ snd_no = 0 /\ aq_taken = 0 /\ sent_no = 0
    /\ ir_left_is_clear = 1 /\ ir_right_is_clear = 1 /\ wall_left = 1 /\ wall_right = 1
    /\ session = "run"
    /\ msgs_left = 0
    /\ loads_left = 0
    /\ samples_left = MaxRunSamples
    /\ drops_left = 0
    /\ unknown_left = 0
    /\ irl_samples_left = MaxRunIrSamples /\ irr_samples_left = MaxRunIrSamples

\* a fastest run at the start of return_home, for every gap the measurement
\* can have stored: the largest kept reading is 0 .. 149, and 70 is added
InitHome ==
    /\ robot_mode = 0
    /\ unpause = FALSE
    /\ movement_lock = FALSE
    /\ android_queue = << >>
    /\ rpi_action_queue = << >>
    /\ command_queue = << >>
    /\ path_queue = << >>
    /\ stm_link = << >>
    /\ next_id = 7
    /\ ra_pc = "rh_gap" /\ ra_msg = [cat |-> "manual", value |-> FC01]
    /\ rpi_pc = "get" /\ rpi_act = NoMessage /\ rpi_i = 0 /\ rpi_id = 0
    /\ cf_pc = "get" /\ cf_command = NoCommand
    /\ stm_pc = "recv" /\ stm_msg = NoAck
    /\ cf_sent = 6
    /\ ultrasonic_is_clear = 0
    /\ obstacle_count_short = 2
    /\ compensate_ydist = us_threshold - 1
    /\ drain_id = 1 /\ fin_done = FALSE
    /\ fc_ret = << >> /\ first_arrow_dir = "38" /\ fc_i = 0 /\ gap_i = 5
    /\ \E m \in 0 .. gap_limit - 1 :
          max_list = << m >> /\ between_obstacles_ydist = m + gap_offset
    /\ second_arrow_dir = "38" /\ total_xdist = 20
    /\ arrow_requests = << 1, 1 >> /\ arrow_reads = << 1, 3 >>
    /\ rc_pc = "wait" /\ android_dropped = FALSE /\ connect_drops = 0
    /\ proc_recv_android = 1 /\ proc_android_sender = 1 /\ kill_sent = {}
    /\ snd_pc = "get" /\ snd_msg = NoMessage /\ snd_no = 0 /\ aq_taken = 0 /\ sent_no = 0
    /\ ir_left_is_clear = 1 /\ ir_right_is_clear = 1 /\ wall_left = 1 /\ wall_right = 1
    /\ session = "run"
    /\ msgs_left = 0
    /\ loads_left = 0
    /\ samples_left = 0
    /\ drops_left = 0
    /\ unknown_left = 0
    /\ irl_samples_left = 0 /\ irr_samples_left = 0

\* Manual mode as in InitManual: the operator changes the mode while the
\* operator link drops
InitReconnect ==
    /\ Idle
    /\ robot_mode = 0
    /\ session = "reconnect"
    /\ msgs_left = MaxReconnectMsgs
    /\ loads_left = 0
    /\ samples_left = 0
    /\ drops_left = MaxDrops
    /\ unknown_left = 0
    /\ irl_samples_left = 0 /\ irr_samples_left = 0

\* the three sensor loops alone
InitIr ==
    /\ Idle
    /\ robot_mode = 0
    /\ session = "sensor"
    /\ msgs_left = 0
    /\ loads_left = 0
    /\ samples_left = MaxIrSamples
    /\ drops_left = 0
    /\ unknown_left = 0
    /\ irl_samples_left = MaxIrSamples /\ irr_samples_left = MaxIrSamples

Init == InitManual

\* ------------------------------------------------ operator receiver (recv_android)
\* cat "mode": the PiAction is put on the action queue whatever the mode is
RecvAndroidMode ==
    /\ ra_pc = "recv" /\ msgs_left > 0
    /\ \E m \in OperatorMessages(session) :
         /\ m.cat = "mode"
         /\ rpi_action_queue' = Append(rpi_action_queue, PiAction(m.cat, m.value))
    /\ msgs_left' = msgs_left - 1
    /\ UNCHANGED << aux_vars, us_vars, ir_vars, snd_vars, fc2_vars, shared, android_queue, command_queue, path_queue, stm_link,
                    next_id, ra_pc, ra_msg, session, loads_left, rpi_vars, cf_vars, stm_vars >>

\* a receiver that takes the next manual message wherever it stands
RecvAndroidManualAnywhere ==
    /\ ra_pc \notin {"raised", "killed"} /\ msgs_left > 0
    /\ \E m \in OperatorMessages(session) :
         /\ m.cat = "manual"
         /\ IF robot_mode = 0
              THEN /\ ra_msg' = m
                   /\ IF m.value = FC01
                        THEN ra_pc' = "mu_check" /\ fc_ret' = << "detect1" >>
                        ELSE ra_pc' = "manual_put" /\ UNCHANGED fc_ret
                   /\ UNCHANGED android_queue
              ELSE /\ HasRoom(android_queue, 1)
                   /\ android_queue' = Append(android_queue,
                         AndroidMessage("error", "Manual movement not allowed in Path mode."))
                   /\ UNCHANGED << ra_pc, ra_msg, fc_ret >>
    /\ msgs_left' = msgs_left - 1
    /\ UNCHANGED << hist_vars, rc_vars, first_arrow_dir, fc_i, gap_i, max_list,
                    between_obstacles_ydist, us_vars, ir_vars, snd_vars, fc2_vars, shared, rpi_action_queue, command_queue, path_queue, stm_link,
                    next_id, session, loads_left, rpi_vars, cf_vars, stm_vars >>

\* cat "manual": robot_mode is read; the put is a later step of the receiver
RecvAndroidManual ==
    /\ ra_pc = "recv" /\ msgs_left > 0
    /\ \E m \in OperatorMessages(session) :
         /\ m.cat = "manual"
         /\ IF robot_mode = 0
              THEN /\ ra_msg' = m
                   /\ IF m.value = FC01
                        THEN ra_pc' = "mu_check" /\ fc_ret' = << "detect1" >>
                        ELSE ra_pc' = "manual_put" /\ UNCHANGED fc_ret
                   /\ UNCHANGED android_queue
              ELSE /\ HasRoom(android_queue, 1)
                   /\ android_queue' = Append(android_queue,
                         AndroidMessage("error", "Manual movement not allowed in Path mode."))
                   /\ UNCHANGED << ra_pc, ra_msg, fc_ret >>
    /\ msgs_left' = msgs_left - 1
    /\ UNCHANGED << hist_vars, rc_vars, first_arrow_dir, fc_i, gap_i, max_list,
                    between_obstacles_ydist, us_vars, ir_vars, snd_vars, fc2_vars, shared, rpi_action_queue, command_queue, path_queue, stm_link,
                    next_id, session, loads_left, rpi_vars, cf_vars, stm_vars >>

\* self.command_queue.put(message['value'])
RecvAndroidPutCommand ==
    /\ ra_pc = "manual_put"
    /\ command_queue' = PutCommand(command_queue, ra_msg.value, next_id)
    /\ next_id' = next_id + 1
    /\ ra_pc' = "recv" /\ ra_msg' = NoMessage
    /\ UNCHANGED << aux_vars, us_vars, ir_vars, snd_vars, fc2_vars, shared, android_queue, rpi_action_queue, path_queue, stm_link,
                    session, msgs_left, loads_left, rpi_vars, cf_vars, stm_vars >>

\* cat "single-obstacle": robot_mode is read; the put is a later step
RecvAndroidSingleObstacle ==
    /\ ra_pc = "recv" /\ msgs_left > 0 /\ loads_left > 0
    /\ \E m \in OperatorMessages(session) :
         /\ m.cat = "single-obstacle"
         /\ IF robot_mode = 1
              THEN /\ ra_pc' = "action_put" /\ ra_msg' = m
                   /\ UNCHANGED android_queue
              ELSE /\ HasRoom(android_queue, 1)
                   /\ android_queue' = Append(android_queue,
                         AndroidMessage("error", "Robot must be in Path mode to set single obstacle."))
                   /\ UNCHANGED << ra_pc, ra_msg >>
    /\ msgs_left' = msgs_left - 1 /\ loads_left' = loads_left - 1
    /\ UNCHANGED << aux_vars, us_vars, ir_vars, snd_vars, fc2_vars, shared, rpi_action_queue, command_queue, path_queue, stm_link,
                    next_id, session, rpi_vars, cf_vars, stm_vars >>

\* self.rpi_action_queue.put(PiAction(**message))
RecvAndroidPutAction ==
    /\ ra_pc = "action_put"
    /\ rpi_action_queue' = Append(rpi_action_queue, PiAction(ra_msg.cat, ra_msg.value))
    /\ ra_pc' = "recv" /\ ra_msg' = NoMessage
    /\ UNCHANGED << aux_vars, us_vars, ir_vars, snd_vars, fc2_vars, shared, android_queue, command_queue, path_queue, stm_link,
                    next_id, session, msgs_left, loads_left, rpi_vars, cf_vars, stm_vars >>

\* cat "control", value "start": robot_mode is read; in Path mode the health
\* check and the start are later steps
RecvAndroidControl ==
    /\ ra_pc = "recv" /\ msgs_left > 0
    /\ \E m \in OperatorMessages(session) :
         /\ m.cat = "control" /\ m.value = <<"s", "t", "a", "r", "t">>
         /\ IF robot_mode = 1
              THEN /\ ra_pc' = "ctl_api" /\ ra_msg' = m
                   /\ UNCHANGED android_queue
              ELSE /\ HasRoom(android_queue, 1)
                   /\ android_queue' = Append(android_queue,
                         AndroidMessage("error",
                            "Robot must be in Path mode to start robot on path."))
                   /\ UNCHANGED << ra_pc, ra_msg >>
    /\ msgs_left' = msgs_left - 1
    /\ UNCHANGED << aux_vars, us_vars, ir_vars, snd_vars, fc2_vars, shared, rpi_action_queue, command_queue, path_queue,
                    stm_link, next_id, session, loads_left, rpi_vars, cf_vars, stm_vars >>

\* a start that a failed health check aborts
ControlCheckApiAborts ==
    /\ ra_pc = "ctl_api"
    /\ \E ok \in BOOLEAN :
         IF ok
           THEN /\ ra_pc' = "ctl_start"
                /\ UNCHANGED << android_queue, stm_link, ra_msg >>
           ELSE /\ HasRoom(android_queue, 1)
                /\ android_queue' = Append(android_queue,
                      AndroidMessage("error", "API is down, start command aborted."))
                /\ stm_link' = StmSend(stm_link, ZZ04, "recv_android", 0)
                /\ ra_pc' = "recv" /\ ra_msg' = NoMessage
    /\ UNCHANGED << aux_vars, us_vars, ir_vars, snd_vars, fc2_vars, shared, rpi_action_queue, command_queue, path_queue,
                    next_id, session, msgs_left, loads_left, rpi_vars, cf_vars, stm_vars >>

\* if not self.check_api(): the error message and buzz STM32 (4 times);
\* check_api answers True, or None or False
ControlCheckApi ==
    /\ ra_pc = "ctl_api"
    /\ \E ok \in BOOLEAN :
         IF ok
           THEN UNCHANGED << android_queue, stm_link >>
           ELSE /\ HasRoom(android_queue, 1)
                /\ android_queue' = Append(android_queue,
                      AndroidMessage("error", "API is down, start command aborted."))
                /\ stm_link' = StmSend(stm_link, ZZ04, "recv_android", 0)
    /\ ra_pc' = "ctl_start"
    /\ UNCHANGED << aux_vars, us_vars, ir_vars, snd_vars, fc2_vars, shared, rpi_action_queue, command_queue, path_queue,
                    next_id, ra_msg, session, msgs_left, loads_left, rpi_vars, cf_vars,
                    stm_vars >>

\* if not self.command_queue.empty(): self.unpause.set() and two messages;
\* else: one error message
ControlStart ==
    /\ ra_pc = "ctl_start"
    /\ IF command_queue # << >>
         THEN /\ HasRoom(android_queue, 2)
              /\ unpause' = TRUE
              /\ fin_done' = FALSE
              /\ android_queue' = android_queue \o
                    << AndroidMessage("info", "Starting robot on path!"),
                       AndroidMessage("status", "running") >>
         ELSE /\ HasRoom(android_queue, 1)
              /\ android_queue' = Append(android_queue,
                    AndroidMessage("error", "Command queue is empty, did you set obstacles?"))
              /\ UNCHANGED << unpause, fin_done >>
    /\ ra_pc' = "recv" /\ ra_msg' = NoMessage
    /\ UNCHANGED << drain_id, fc_vars, rc_vars, us_vars, ir_vars, snd_vars, fc2_vars, robot_mode, movement_lock,
                    rpi_action_queue, command_queue, path_queue, stm_link, next_id,
                    session, msgs_left, loads_left, rpi_vars, cf_vars, stm_vars >>

\* ------------------------------------------------ fastest run (fastest_car)
\* the run is a call of the operator receiver: ra_pc is its position in
\* fastest_car and fc_ret the positions its calls return to

\* move_until_obstacle_us: if self.ultrasonic_is_clear.value == 1, clear_queues
\* and then the forward command; else straight to the wait
MoveUntilCheck ==
    /\ ra_pc = "mu_check"
    /\ IF ultrasonic_is_clear = 1
         THEN ra_pc' = "fcq_cmd_empty" /\ fc_ret' = << "mu_put_fw" >> \o fc_ret
         ELSE ra_pc' = "mu_wait" /\ UNCHANGED fc_ret
    /\ UNCHANGED << hist_vars, rc_vars, first_arrow_dir, fc_i, gap_i, max_list,
                    between_obstacles_ydist, us_vars, ir_vars, snd_vars, fc2_vars, shared, android_queue,
                    rpi_action_queue, command_queue, path_queue, stm_link, next_id,
                    ra_msg, session, msgs_left, loads_left, rpi_vars, cf_vars, stm_vars >>

\* clear_queues called by the run: while not self.command_queue.empty()
FcClearQueuesCommandEmpty ==
    /\ ra_pc = "fcq_cmd_empty"
    /\ ra_pc' = IF command_queue # << >> THEN "fcq_cmd_get" ELSE "fcq_path_empty"
    /\ UNCHANGED << aux_vars, us_vars, ir_vars, snd_vars, fc2_vars, shared, android_queue, rpi_action_queue, command_queue,
                    path_queue, stm_link, next_id, ra_msg, session, msgs_left, loads_left,
                    rpi_vars, cf_vars, stm_vars >>

\* self.command_queue.get(): blocks while the queue is empty
FcClearQueuesCommandGet ==
    /\ ra_pc = "fcq_cmd_get"
    /\ command_queue # << >>
    /\ command_queue' = Tail(command_queue)
    /\ ra_pc' = "fcq_cmd_empty"
    /\ UNCHANGED << aux_vars, us_vars, ir_vars, snd_vars, fc2_vars, shared, android_queue, rpi_action_queue, path_queue,
                    stm_link, next_id, ra_msg, session, msgs_left, loads_left,
                    rpi_vars, cf_vars, stm_vars >>

\* while not self.path_queue.empty(); an empty queue ends clear_queues
FcClearQueuesPathEmpty ==
    /\ ra_pc = "fcq_path_empty"
    /\ IF path_queue # << >>
         THEN ra_pc' = "fcq_path_get" /\ UNCHANGED fc_ret
         ELSE ra_pc' = Head(fc_ret) /\ fc_ret' = Tail(fc_ret)
    /\ UNCHANGED << hist_vars, rc_vars, first_arrow_dir, fc_i, gap_i, max_list,
                    between_obstacles_ydist, us_vars, ir_vars, snd_vars, fc2_vars, shared, android_queue,
                    rpi_action_queue, command_queue, path_queue, stm_link, next_id,
                    ra_msg, session, msgs_left, loads_left, rpi_vars, cf_vars, stm_vars >>

\* self.path_queue.get(): blocks while the queue is empty
FcClearQueuesPathGet ==
    /\ ra_pc = "fcq_path_get"
    /\ path_queue # << >>
    /\ path_queue' = Tail(path_queue)
    /\ ra_pc' = "fcq_path_empty"
    /\ UNCHANGED << aux_vars, us_vars, ir_vars, snd_vars, fc2_vars, shared, android_queue, rpi_action_queue, command_queue,
                    stm_link, next_id, ra_msg, session, msgs_left, loads_left,
                    rpi_vars, cf_vars, stm_vars >>

\* self.command_queue.put("FW--")
MoveUntilPutForward ==
    /\ ra_pc = "mu_put_fw"
    /\ command_queue' = PutCommand(command_queue, FW__, next_id)
    /\ next_id' = next_id + 1
    /\ ra_pc' = "mu_wait"
    /\ UNCHANGED << aux_vars, us_vars, ir_vars, snd_vars, fc2_vars, shared, android_queue, rpi_action_queue, path_queue,
                    stm_link, ra_msg, session, msgs_left, loads_left,
                    rpi_vars, cf_vars, stm_vars >>

\* a waiting loop that goes on to STOP without reading the flag
MoveUntilWaitNoCheck ==
    /\ ra_pc = "mu_wait"
    /\ ra_pc' = "fcq_cmd_empty" /\ fc_ret' = << "mu_put_stop" >> \o fc_ret
    /\ UNCHANGED << hist_vars, rc_vars, first_arrow_dir, fc_i, gap_i, max_list,
                    between_obstacles_ydist, us_vars, ir_vars, snd_vars, fc2_vars, shared, android_queue,
                    rpi_action_queue, command_queue, path_queue, stm_link, next_id,
                    ra_msg, session, msgs_left, loads_left, rpi_vars, cf_vars, stm_vars >>

\* while True: if self.ultrasonic_is_clear.value == 0, clear_queues and then STOP
MoveUntilWait ==
    /\ ra_pc = "mu_wait"
    /\ ultrasonic_is_clear = 0
    /\ ra_pc' = "fcq_cmd_empty" /\ fc_ret' = << "mu_put_stop" >> \o fc_ret
    /\ UNCHANGED << hist_vars, rc_vars, first_arrow_dir, fc_i, gap_i, max_list,
                    between_obstacles_ydist, us_vars, ir_vars, snd_vars, fc2_vars, shared, android_queue,
                    rpi_action_queue, command_queue, path_queue, stm_link, next_id,
                    ra_msg, session, msgs_left, loads_left, rpi_vars, cf_vars, stm_vars >>

\* self.command_queue.put("STOP") and the return of move_until_obstacle_us
MoveUntilPutStop ==
    /\ ra_pc = "mu_put_stop"
    /\ command_queue' = PutCommand(command_queue, STOP, next_id)
    /\ next_id' = next_id + 1
    /\ ra_pc' = Head(fc_ret) /\ fc_ret' = Tail(fc_ret)
    /\ UNCHANGED << hist_vars, rc_vars, first_arrow_dir, fc_i, gap_i, max_list,
                    between_obstacles_ydist, us_vars, ir_vars, snd_vars, fc2_vars, shared, android_queue,
                    rpi_action_queue, path_queue, stm_link, ra_msg, session, msgs_left,
                    loads_left, rpi_vars, cf_vars, stm_vars >>

\* a classification step that tells the operator nothing when the request fails
DetectArrowImageSilent ==
    /\ ra_pc = "detect1"
    /\ arrow_requests' = [arrow_requests EXCEPT ![1] = @ + 1]
    /\ \E r \in ArrowResults :
         /\ first_arrow_dir' = r
         /\ IF r = "None"
              THEN UNCHANGED android_queue
              ELSE UNCHANGED android_queue
    /\ ra_pc' = "cfo"
    /\ UNCHANGED << hist_vars, rc_vars, fc_ret, fc_i, gap_i, max_list,
                    between_obstacles_ydist, us_vars, ir_vars, snd_vars, second_arrow_dir, total_xdist, arrow_reads, shared, rpi_action_queue,
                    command_queue, path_queue, stm_link, next_id, ra_msg, session,
                    msgs_left, loads_left, rpi_vars, cf_vars, stm_vars >>

\* first_arrow_dir = self.detect_arrow_image(): the image_id of the answer,
\* or an error message and None when the endpoint does not answer 200
DetectArrowImage ==
    /\ ra_pc = "detect1"
    /\ arrow_requests' = [arrow_requests EXCEPT ![1] = @ + 1]
    /\ \E r \in ArrowResults :
         /\ first_arrow_dir' = r
         /\ IF r = "None"
              THEN /\ HasRoom(android_queue, 1)
                   /\ android_queue' = Append(android_queue,
                         AndroidMessage("error",
                            "Something went wrong when requesting path from image-rec API. Please try again."))
              ELSE UNCHANGED android_queue
    /\ ra_pc' = "cfo"
    /\ UNCHANGED << hist_vars, rc_vars, fc_ret, fc_i, gap_i, max_list,
                    between_obstacles_ydist, us_vars, ir_vars, snd_vars, second_arrow_dir, total_xdist, arrow_reads, shared, rpi_action_queue,
                    command_queue, path_queue, stm_link, next_id, ra_msg, session,
                    msgs_left, loads_left, rpi_vars, cf_vars, stm_vars >>

\* clear_first_obstacle: the branch is chosen, then self.clear_queues()
ClearFirstObstacle ==
    /\ ra_pc = "cfo"
    /\ arrow_reads' = [arrow_reads EXCEPT ![1] = @ + 1]
    /\ fc_i' = 0
    /\ ra_pc' = "fcq_cmd_empty" /\ fc_ret' = << "cfo_put" >> \o fc_ret
    /\ UNCHANGED << hist_vars, rc_vars, first_arrow_dir, gap_i, max_list,
                    between_obstacles_ydist, us_vars, ir_vars, snd_vars, second_arrow_dir, total_xdist, arrow_requests, shared, android_queue,
                    rpi_action_queue, command_queue, path_queue, stm_link, next_id,
                    ra_msg, session, msgs_left, loads_left, rpi_vars, cf_vars, stm_vars >>

\* for c in hardcoded_path: self.command_queue.put(c); after the last put
\* fastest_car goes on to the gap measurement
ClearFirstObstaclePut ==
    /\ ra_pc = "cfo_put"
    /\ command_queue' = PutCommand(command_queue,
          ClearFirstObstacleScript(first_arrow_dir)[fc_i + 1], next_id)
    /\ next_id' = next_id + 1
    /\ fc_i' = fc_i + 1
    /\ IF fc_i + 1 < Len(ClearFirstObstacleScript(first_arrow_dir))
         THEN UNCHANGED << ra_pc, gap_i, max_list >>
         ELSE ra_pc' = "gap_test" /\ gap_i' = 0 /\ max_list' = << >>
    /\ UNCHANGED << hist_vars, rc_vars, fc_ret, first_arrow_dir, between_obstacles_ydist,
                    us_vars, ir_vars, snd_vars, fc2_vars, shared, android_queue, rpi_action_queue, path_queue, stm_link,
                    ra_msg, session, msgs_left, loads_left, rpi_vars, cf_vars, stm_vars >>

\* int(self.compensate_ydist.value): the distance is kept in tenths
IntTrunc(d) == d \div 10

\* max(max_list)
RECURSIVE MaxOf(_)
MaxOf(l) ==
    IF Len(l) = 1 THEN l[1]
    ELSE IF l[1] >= MaxOf(Tail(l)) THEN l[1] ELSE MaxOf(Tail(l))

\* for i in range(5): if int(self.compensate_ydist.value) < 150; a reading
\* that fails the test is followed by the sleep and the next iteration
GapTest ==
    /\ ra_pc = "gap_test"
    /\ IF IntTrunc(compensate_ydist) < gap_limit
         THEN ra_pc' = "gap_append" /\ UNCHANGED gap_i
         ELSE /\ gap_i' = gap_i + 1
              /\ ra_pc' = IF gap_i + 1 < gap_readings THEN "gap_test" ELSE "gap_store"
    /\ UNCHANGED << hist_vars, rc_vars, fc_ret, first_arrow_dir, fc_i, max_list,
                    between_obstacles_ydist, us_vars, ir_vars, snd_vars, fc2_vars, shared, android_queue,
                    rpi_action_queue, command_queue, path_queue, stm_link, next_id,
                    ra_msg, session, msgs_left, loads_left, rpi_vars, cf_vars, stm_vars >>

\* max_list.append(int(self.compensate_ydist.value)): the value is read again
GapAppend ==
    /\ ra_pc = "gap_append"
    /\ max_list' = Append(max_list, IntTrunc(compensate_ydist))
    /\ gap_i' = gap_i + 1
    /\ ra_pc' = IF gap_i + 1 < gap_readings THEN "gap_test" ELSE "gap_store"
    /\ UNCHANGED << hist_vars, rc_vars, fc_ret, first_arrow_dir, fc_i,
                    between_obstacles_ydist, us_vars, ir_vars, snd_vars, fc2_vars, shared, android_queue,
                    rpi_action_queue, command_queue, path_queue, stm_link, next_id,
                    ra_msg, session, msgs_left, loads_left, rpi_vars, cf_vars, stm_vars >>

\* if max(max_list) is not None: between_obstacles_ydist = max(max_list), then
\* += 70 and move_until_obstacle_us(); max of an empty list raises ValueError,
\* which nothing in fastest_car or recv_android catches
GapStore ==
    /\ ra_pc = "gap_store"
    /\ IF max_list # << >>
         THEN /\ between_obstacles_ydist' = MaxOf(max_list) + gap_offset
              /\ ra_pc' = "mu_check" /\ fc_ret' = << "detect2" >> \o fc_ret
         ELSE /\ ra_pc' = "raised"
              /\ UNCHANGED << between_obstacles_ydist, fc_ret >>
    /\ UNCHANGED << hist_vars, rc_vars, first_arrow_dir, fc_i, gap_i, max_list,
                    us_vars, ir_vars, snd_vars, fc2_vars, shared, android_queue, rpi_action_queue, command_queue,
                    path_queue, stm_link, next_id, ra_msg, session, msgs_left,
                    loads_left, rpi_vars, cf_vars, stm_vars >>

\* ------------------------------------------------ fastest run, obstacle 2 and home
\* everything the steps below leave alone besides the run's own variables
fc_rest == << hist_vars, rc_vars, us_vars, ir_vars, snd_vars, shared, rpi_action_queue,
              path_queue, session, msgs_left, loads_left, rpi_vars, cf_vars, stm_vars,
              first_arrow_dir, gap_i, max_list, between_obstacles_ydist >>

\* second_arrow_dir = self.detect_arrow_image()
DetectSecondArrow ==
    /\ ra_pc = "detect2"
    /\ arrow_requests' = [arrow_requests EXCEPT ![2] = @ + 1]
    /\ \E r \in ArrowResults :
         /\ second_arrow_dir' = r
         /\ IF r = "None"
              THEN /\ HasRoom(android_queue, 1)
                   /\ android_queue' = Append(android_queue,
                         AndroidMessage("error",
                            "Something went wrong when requesting path from image-rec API. Please try again."))
              ELSE UNCHANGED android_queue
    /\ ra_pc' = "p1_back"
    /\ UNCHANGED << fc_rest, fc_ret, fc_i, total_xdist, arrow_reads, command_queue, next_id,
                    stm_link, ra_msg >>

\* clear_second_obstacle_p1: the branch is chosen and the front distance is
\* read: below 15.0 it is read again, else self.clear_queues()
P1Back ==
    /\ ra_pc = "p1_back"
    /\ arrow_reads' = [arrow_reads EXCEPT ![2] = @ + 1]
    /\ IF compensate_ydist < 15 * 10
         THEN ra_pc' = "p1_dist" /\ UNCHANGED fc_ret
         ELSE ra_pc' = "fcq_cmd_empty" /\ fc_ret' = << "p1_turn" >> \o fc_ret
    /\ fc_i' = 0
    /\ UNCHANGED << fc_rest, second_arrow_dir, total_xdist, arrow_requests, command_queue,
                    next_id, android_queue, stm_link, ra_msg >>

\* dist_to_move = int(27 - int(self.compensate_ydist.value)): the second read;
\* BW05 if it is not negative; then self.clear_queues()
P1Dist ==
    /\ ra_pc = "p1_dist"
    /\ IF 27 - IntTrunc(compensate_ydist) >= 0
         THEN /\ command_queue' = PutCommand(command_queue, BW05, next_id)
              /\ next_id' = next_id + 1
         ELSE UNCHANGED << command_queue, next_id >>
    /\ ra_pc' = "fcq_cmd_empty" /\ fc_ret' = << "p1_turn" >> \o fc_ret
    /\ UNCHANGED << fc_rest, fc_i, fc2_vars, android_queue, stm_link, ra_msg >>

\* for c in hardcoded_path (the first turn), then move_past_obstacle_irl or
\* move_past_obstacle_irr
P1TurnPut ==
    /\ ra_pc = "p1_turn"
    /\ command_queue' = PutCommand(command_queue, P1Turn(second_arrow_dir)[1], next_id)
    /\ next_id' = next_id + 1
    /\ ra_pc' = "mp_first" /\ fc_ret' = << "mp_final", "p1_width" >> \o fc_ret
    /\ UNCHANGED << fc_rest, fc_i, fc2_vars, android_queue, stm_link, ra_msg >>

\* move_past_obstacle_*: if the flag is 0, clear_queues and a first FW10
MovePastFirst ==
    /\ ra_pc = "mp_first"
    /\ IF MovePastFlag(second_arrow_dir, ir_left_is_clear, ir_right_is_clear) = 0
         THEN ra_pc' = "fcq_cmd_empty" /\ fc_ret' = << "mp_first_put" >> \o fc_ret
         ELSE ra_pc' = "mp_loop" /\ UNCHANGED fc_ret
    /\ UNCHANGED << fc_rest, fc_i, fc2_vars, command_queue, next_id, android_queue,
                    stm_link, ra_msg >>

\* self.command_queue.put("FW10"); self.total_xdist.value += 10
MovePastFirstPut ==
    /\ ra_pc = "mp_first_put"
    /\ command_queue' = PutCommand(command_queue, FW10, next_id)
    /\ next_id' = next_id + 1
    /\ total_xdist' = total_xdist + 10
    /\ ra_pc' = "mp_loop"
    /\ UNCHANGED << fc_rest, fc_ret, fc_i, second_arrow_dir, arrow_requests, arrow_reads,
                    android_queue, stm_link, ra_msg >>

\* while True: flag 0 puts another FW10 and adds 10; flag 1 breaks
MovePastLoop ==
    /\ ra_pc = "mp_loop"
    /\ IF MovePastFlag(second_arrow_dir, ir_left_is_clear, ir_right_is_clear) = 0
         THEN /\ total_xdist < MaxXdist
              /\ command_queue' = PutCommand(command_queue, FW10, next_id)
              /\ next_id' = next_id + 1
              /\ total_xdist' = total_xdist + 10
              /\ UNCHANGED << ra_pc, fc_ret >>
         ELSE /\ ra_pc' = Head(fc_ret) /\ fc_ret' = Tail(fc_ret)
              /\ UNCHANGED << command_queue, next_id, total_xdist >>
    /\ UNCHANGED << fc_rest, fc_i, second_arrow_dir, arrow_requests, arrow_reads,
                    android_queue, stm_link, ra_msg >>

\* move_past_obstacle_irl / _irr (not the _long ones): one more FW10
MovePastFinal ==
    /\ ra_pc = "mp_final"
    /\ command_queue' = PutCommand(command_queue, FW10, next_id)
    /\ next_id' = next_id + 1
    /\ total_xdist' = total_xdist + 10
    /\ ra_pc' = Head(fc_ret) /\ fc_ret' = Tail(fc_ret)
    /\ UNCHANGED << fc_rest, fc_i, second_arrow_dir, arrow_requests, arrow_reads,
                    android_queue, stm_link, ra_msg >>

\* clear_second_obstacle_p1: the turn along the width and FW10
P1WidthPut ==
    /\ ra_pc = "p1_width"
    /\ command_queue' = PutCommand(command_queue, P1Width(second_arrow_dir)[fc_i + 1], next_id)
    /\ next_id' = next_id + 1
    /\ IF fc_i + 1 < Len(P1Width(second_arrow_dir))
         THEN fc_i' = fc_i + 1 /\ UNCHANGED ra_pc
         ELSE fc_i' = 0 /\ ra_pc' = "p2_turn"
    /\ UNCHANGED << fc_rest, fc_ret, fc2_vars, android_queue, stm_link, ra_msg >>

\* clear_second_obstacle_p2: the branch is chosen, the turn and the forward
\* commands are put, then move_past_obstacle_irl_long or _irr_long
P2Put ==
    /\ ra_pc = "p2_turn"
    /\ arrow_reads' = IF fc_i = 0 THEN [arrow_reads EXCEPT ![2] = @ + 1] ELSE arrow_reads
    /\ command_queue' = PutCommand(command_queue,
          P2Script(second_arrow_dir, total_xdist)[fc_i + 1], next_id)
    /\ next_id' = next_id + 1
    /\ IF fc_i + 1 < Len(P2Script(second_arrow_dir, total_xdist))
         THEN fc_i' = fc_i + 1 /\ UNCHANGED << ra_pc, fc_ret >>
         ELSE fc_i' = 0 /\ ra_pc' = "mp_first" /\ fc_ret' = << "p3_turn" >> \o fc_ret
    /\ UNCHANGED << fc_rest, second_arrow_dir, total_xdist, arrow_requests,
                    android_queue, stm_link, ra_msg >>

\* clear_second_obstacle_p3: the branch is chosen and its turn put
P3Put ==
    /\ ra_pc = "p3_turn"
    /\ arrow_reads' = [arrow_reads EXCEPT ![2] = @ + 1]
    /\ command_queue' = PutCommand(command_queue, P3Script(second_arrow_dir)[1], next_id)
    /\ next_id' = next_id + 1
    /\ ra_pc' = "rh_gap"
    /\ UNCHANGED << fc_rest, fc_ret, fc_i, second_arrow_dir, total_xdist, arrow_requests,
                    android_queue, stm_link, ra_msg >>

\* return_home: local_ydist = self.between_obstacles_ydist.value as forward
\* commands
ReturnHomeGapPut ==
    /\ ra_pc = "rh_gap"
    /\ command_queue' = PutCommand(command_queue,
          ForwardChunks(between_obstacles_ydist)[fc_i + 1], next_id)
    /\ next_id' = next_id + 1
    /\ IF fc_i + 1 < Len(ForwardChunks(between_obstacles_ydist))
         THEN fc_i' = fc_i + 1 /\ UNCHANGED ra_pc
         ELSE fc_i' = 0 /\ ra_pc' = "rh_turn"
    /\ UNCHANGED << fc_rest, fc_ret, fc2_vars, android_queue, stm_link, ra_msg >>

\* return_home: the branch is chosen on the global second_arrow_dir, then
\* self.clear_queues()
ReturnHomeTurn ==
    /\ ra_pc = "rh_turn"
    /\ arrow_reads' = [arrow_reads EXCEPT ![2] = @ + 1]
    /\ ra_pc' = "fcq_cmd_empty" /\ fc_ret' = << "rh_turn_put" >> \o fc_ret
    /\ UNCHANGED << fc_rest, fc_i, second_arrow_dir, total_xdist, arrow_requests,
                    command_queue, next_id, android_queue, stm_link, ra_msg >>

\* return_home: the turn is put
ReturnHomeTurnPut ==
    /\ ra_pc = "rh_turn_put"
    /\ command_queue' = PutCommand(command_queue,
          ReturnHomeTurnScript(second_arrow_dir)[1], next_id)
    /\ next_id' = next_id + 1
    /\ ra_pc' = "rh_rest"
    /\ UNCHANGED << fc_rest, fc_ret, fc_i, fc2_vars, android_queue, stm_link, ra_msg >>

\* return_home: the samula check, single_xdist as forward commands, the last turn
ReturnHomeRestPut ==
    /\ ra_pc = "rh_rest"
    /\ command_queue' = PutCommand(command_queue,
          ReturnHomeRestScript(second_arrow_dir, total_xdist)[fc_i + 1], next_id)
    /\ next_id' = next_id + 1
    /\ IF fc_i + 1 < Len(ReturnHomeRestScript(second_arrow_dir, total_xdist))
         THEN fc_i' = fc_i + 1 /\ UNCHANGED ra_pc
         ELSE fc_i' = 0 /\ ra_pc' = "rh2_check"
    /\ UNCHANGED << fc_rest, fc_ret, fc2_vars, android_queue, stm_link, ra_msg >>

\* return_home_2: if self.ultrasonic_is_clear.value == 1, put "FW--"
ReturnHome2Check ==
    /\ ra_pc = "rh2_check"
    /\ IF ultrasonic_is_clear = 1
         THEN /\ command_queue' = PutCommand(command_queue, FW__, next_id)
              /\ next_id' = next_id + 1
         ELSE UNCHANGED << command_queue, next_id >>
    /\ ra_pc' = "rh2_wait"
    /\ UNCHANGED << fc_rest, fc_ret, fc_i, fc2_vars, android_queue, stm_link, ra_msg >>

\* return_home_2: while True: if the front flag is 0, clear_queues
ReturnHome2Wait ==
    /\ ra_pc = "rh2_wait"
    /\ ultrasonic_is_clear = 0
    /\ ra_pc' = "fcq_cmd_empty" /\ fc_ret' = << "rh2_stop" >> \o fc_ret
    /\ UNCHANGED << fc_rest, fc_i, fc2_vars, command_queue, next_id, android_queue,
                    stm_link, ra_msg >>

\* return_home_2: self.command_queue.put("STOP")
ReturnHome2Stop ==
    /\ ra_pc = "rh2_stop"
    /\ command_queue' = PutCommand(command_queue, STOP, next_id)
    /\ next_id' = next_id + 1
    /\ ra_pc' = "fc_buzz"
    /\ UNCHANGED << fc_rest, fc_ret, fc_i, fc2_vars, android_queue, stm_link, ra_msg >>

\* fastest_car: self.stm_link.send("ZZ02"); the call returns to the receive loop
FastestCarBuzz ==
    /\ ra_pc = "fc_buzz"
    /\ stm_link' = StmSend(stm_link, ZZ02, "fastest_car", 0)
    /\ ra_pc' = "recv" /\ ra_msg' = NoMessage
    /\ UNCHANGED << fc_rest, fc_ret, fc_i, fc2_vars, command_queue, next_id, android_queue >>

\* ------------------------------------------------ operator sender (android_sender)
AndroidSender ==
    /\ proc_android_sender > 0 /\ snd_pc = "get"
    /\ android_queue # << >>
    /\ android_queue' = Tail(android_queue)
    /\ UNCHANGED << aux_vars, us_vars, ir_vars, snd_vars, fc2_vars, shared, rpi_action_queue, command_queue, path_queue, stm_link,
                    next_id, ra_vars, rpi_vars, cf_vars, stm_vars >>

\* ------------------------------------------------ action dispatcher (rpi_action)
\* the branch of change_mode that refuses the mode the robot is already in
\* the refusal testing the Manual case only
AlreadyInModeManualOnly(new_mode, mode) == new_mode = <<"manual">> /\ mode = 0

AlreadyInMode(new_mode, mode) ==
    \/ new_mode = <<"manual">> /\ mode = 0
    \/ new_mode = <<"path">> /\ mode = 1

ChangeModeReject ==
    /\ HasRoom(android_queue, 1)
    /\ rpi_pc = "get" /\ rpi_action_queue # << >>
    /\ Head(rpi_action_queue).cat = "mode"
    /\ AlreadyInMode(Head(rpi_action_queue).value, robot_mode)
    /\ rpi_action_queue' = Tail(rpi_action_queue)
    /\ android_queue' = Append(android_queue,
          AndroidMessage("error",
             IF Head(rpi_action_queue).value = <<"manual">>
               THEN "Robot already in Manual mode."
               ELSE "Robot already in Path mode."))
    /\ UNCHANGED << aux_vars, us_vars, ir_vars, snd_vars, fc2_vars, shared, command_queue, path_queue, stm_link, next_id,
                    ra_vars, rpi_vars, cf_vars, stm_vars >>

\* self.robot_mode.value = 0 if new_mode == 'manual' else 1, then clear_queues
ChangeModeAccept ==
    /\ rpi_pc = "get" /\ rpi_action_queue # << >>
    /\ Head(rpi_action_queue).cat = "mode"
    /\ ~AlreadyInMode(Head(rpi_action_queue).value, robot_mode)
    /\ rpi_action_queue' = Tail(rpi_action_queue)
    /\ rpi_act' = Head(rpi_action_queue)
    /\ robot_mode' = IF Head(rpi_action_queue).value = <<"manual">> THEN 0 ELSE 1
    /\ rpi_pc' = "cq_cmd_empty"
    /\ drain_id' = next_id
    /\ UNCHANGED << fin_done, fc_vars, rc_vars, us_vars, ir_vars, snd_vars, fc2_vars, unpause, movement_lock,
                    android_queue, command_queue, path_queue,
                    stm_link, next_id, ra_vars, rpi_i, rpi_id, cf_vars, stm_vars >>

\* add_navigate_path begins with clear_queues
AddNavigatePath ==
    /\ rpi_pc = "get" /\ rpi_action_queue # << >>
    /\ Head(rpi_action_queue).cat = "single-obstacle"
    /\ rpi_action_queue' = Tail(rpi_action_queue)
    /\ rpi_act' = Head(rpi_action_queue)
    /\ rpi_pc' = "cq_cmd_empty"
    /\ UNCHANGED << aux_vars, us_vars, ir_vars, snd_vars, fc2_vars, shared, android_queue, command_queue, path_queue, stm_link,
                    next_id, ra_vars, rpi_i, rpi_id, cf_vars, stm_vars >>

\* request_stitch: the stitch endpoint answers 200 or not
RequestStitch ==
    /\ HasRoom(android_queue, 1)
    /\ rpi_pc = "get" /\ rpi_action_queue # << >>
    /\ Head(rpi_action_queue).cat = "stitch"
    /\ rpi_action_queue' = Tail(rpi_action_queue)
    /\ \E ok \in BOOLEAN :
         android_queue' = Append(android_queue,
            IF ok THEN AndroidMessage("info", "Images stitched!")
                  ELSE AndroidMessage("error",
                         "Something went wrong when requesting stitch from the API."))
    /\ UNCHANGED << aux_vars, us_vars, ir_vars, snd_vars, fc2_vars, shared, command_queue, path_queue, stm_link, next_id,
                    ra_vars, rpi_vars, cf_vars, stm_vars >>

\* an action of any other category (snap) matches no branch of rpi_action
RpiActionIgnored ==
    /\ rpi_pc = "get" /\ rpi_action_queue # << >>
    /\ Head(rpi_action_queue).cat \notin {"mode", "single-obstacle", "stitch"}
    /\ rpi_action_queue' = Tail(rpi_action_queue)
    /\ UNCHANGED << aux_vars, us_vars, ir_vars, snd_vars, fc2_vars, shared, android_queue, command_queue, path_queue, stm_link,
                    next_id, ra_vars, rpi_vars, cf_vars, stm_vars >>

\* clear_queues, one queue operation per step:
\*   while not self.command_queue.empty(): self.command_queue.get()
\*   while not self.path_queue.empty(): self.path_queue.get()
ClearQueuesCommandEmpty ==
    /\ rpi_pc = "cq_cmd_empty"
    /\ rpi_pc' = IF command_queue = << >> THEN "cq_path_empty" ELSE "cq_cmd_get"
    /\ UNCHANGED << aux_vars, us_vars, ir_vars, snd_vars, fc2_vars, shared, android_queue, rpi_action_queue, command_queue, path_queue,
                    stm_link, next_id, ra_vars, rpi_act, rpi_i, rpi_id, cf_vars, stm_vars >>

ClearQueuesCommandGet ==
    /\ rpi_pc = "cq_cmd_get"
    /\ command_queue # << >>
    /\ command_queue' = Tail(command_queue)
    /\ rpi_pc' = "cq_cmd_empty"
    /\ UNCHANGED << aux_vars, us_vars, ir_vars, snd_vars, fc2_vars, shared, android_queue, rpi_action_queue, path_queue,
                    stm_link, next_id, ra_vars, rpi_act, rpi_i, rpi_id, cf_vars, stm_vars >>

\* when the drain returns into add_navigate_path, its loop starts (rpi_i = 0)
ClearQueuesPathEmpty ==
    /\ rpi_pc = "cq_path_empty"
    /\ rpi_pc' = IF path_queue # << >> THEN "cq_path_get"
                 ELSE IF rpi_act.cat = "mode" THEN "cm_gate" ELSE "nav_cmd"
    /\ rpi_i' = IF path_queue = << >> /\ rpi_act.cat # "mode" THEN 0 ELSE rpi_i
    /\ UNCHANGED << aux_vars, us_vars, ir_vars, snd_vars, fc2_vars, shared, android_queue, rpi_action_queue, command_queue, path_queue,
                    stm_link, next_id, ra_vars, rpi_act, rpi_id, cf_vars, stm_vars >>

ClearQueuesPathGet ==
    /\ rpi_pc = "cq_path_get"
    /\ path_queue # << >>
    /\ path_queue' = Tail(path_queue)
    /\ rpi_pc' = "cq_path_empty"
    /\ UNCHANGED << aux_vars, us_vars, ir_vars, snd_vars, fc2_vars, shared, android_queue, rpi_action_queue, command_queue,
                    stm_link, next_id, ra_vars, rpi_act, rpi_i, rpi_id, cf_vars, stm_vars >>

\* change_mode after the drain: the unpause event, then the guarded release
ChangeModeRelease ==
    /\ rpi_pc = "cm_gate"
    /\ unpause' = (rpi_act.value = <<"manual">>)
    /\ movement_lock' = FALSE
    /\ rpi_pc' = "cm_notify"
    /\ fin_done' = (fin_done /\ rpi_act.value # <<"manual">>)
    /\ UNCHANGED << drain_id, fc_vars, rc_vars, us_vars, ir_vars, snd_vars, fc2_vars, robot_mode, android_queue, rpi_action_queue, command_queue,
                    path_queue, stm_link, next_id, ra_vars, rpi_act, rpi_i, rpi_id,
                    cf_vars, stm_vars >>

\* change_mode: notify android, buzz stm32 (1 time)
ChangeModeNotify ==
    /\ HasRoom(android_queue, 1)
    /\ rpi_pc = "cm_notify"
    /\ android_queue' = Append(android_queue,
          AndroidMessage("info",
             IF rpi_act.value = <<"manual">> THEN "Robot is now in Manual mode."
                                             ELSE "Robot is now in Path mode."))
    /\ stm_link' = StmSend(stm_link, ZZ01, "change_mode", 0)
    /\ rpi_pc' = "get" /\ rpi_act' = NoMessage
    /\ UNCHANGED << aux_vars, us_vars, ir_vars, snd_vars, fc2_vars, shared, rpi_action_queue, command_queue, path_queue, next_id,
                    ra_vars, rpi_i, rpi_id, cf_vars, stm_vars >>

\* add_navigate_path: self.command_queue.put(c)
NavigatePutCommand ==
    /\ rpi_pc = "nav_cmd"
    /\ command_queue' = PutCommand(command_queue, hardcoded_path[rpi_i + 1], next_id)
    /\ rpi_id' = next_id
    /\ next_id' = next_id + 1
    /\ rpi_pc' = "nav_path"
    /\ UNCHANGED << aux_vars, us_vars, ir_vars, snd_vars, fc2_vars, shared, android_queue, rpi_action_queue, path_queue, stm_link,
                    ra_vars, rpi_act, rpi_i, cf_vars, stm_vars >>

\* a loop that puts the waypoint of a command twice
NavigatePutWaypointTwice ==
    /\ rpi_pc = "nav_path"
    /\ path_queue' = PutWaypoint(PutWaypoint(path_queue, rpi_id), rpi_id)
    /\ rpi_i' = rpi_i + 1
    /\ rpi_pc' = IF rpi_i + 1 < Len(hardcoded_path) THEN "nav_cmd" ELSE "nav_info"
    /\ UNCHANGED << aux_vars, us_vars, ir_vars, snd_vars, fc2_vars, shared, android_queue, rpi_action_queue, command_queue,
                    stm_link, next_id, ra_vars, rpi_act, rpi_id, cf_vars, stm_vars >>

\* add_navigate_path: self.path_queue.put({...}), the end of one loop iteration
NavigatePutWaypoint ==
    /\ rpi_pc = "nav_path"
    /\ path_queue' = PutWaypoint(path_queue, rpi_id)
    /\ rpi_i' = rpi_i + 1
    /\ rpi_pc' = IF rpi_i + 1 < Len(hardcoded_path) THEN "nav_cmd" ELSE "nav_info"
    /\ UNCHANGED << aux_vars, us_vars, ir_vars, snd_vars, fc2_vars, shared, android_queue, rpi_action_queue, command_queue,
                    stm_link, next_id, ra_vars, rpi_act, rpi_id, cf_vars, stm_vars >>

\* add_navigate_path: the info message after the loop
NavigateInfo ==
    /\ rpi_pc = "nav_info"
    /\ HasRoom(android_queue, 1)
    /\ android_queue' = Append(android_queue,
          AndroidMessage("info",
             "Navigate-around-obstacle path loaded. Robot is ready to move."))
    /\ rpi_pc' = "get" /\ rpi_act' = NoMessage
    /\ UNCHANGED << aux_vars, us_vars, ir_vars, snd_vars, fc2_vars, shared, rpi_action_queue, command_queue, path_queue,
                    stm_link, next_id, ra_vars, rpi_i, rpi_id, cf_vars, stm_vars >>

\* ------------------------------------------------ command sequencer (command_follower)
\* the sequencer taking the newest command instead of the oldest
CommandFollowerGetNewest ==
    /\ cf_pc = "get"
    /\ command_queue # << >>
    /\ cf_command' = command_queue[Len(command_queue)]
    /\ command_queue' = SubSeq(command_queue, 1, Len(command_queue) - 1)
    /\ cf_pc' = "acquire"
    /\ UNCHANGED << aux_vars, us_vars, ir_vars, snd_vars, fc2_vars, shared, android_queue, rpi_action_queue, path_queue, stm_link,
                    next_id, ra_vars, rpi_vars, cf_sent, stm_vars >>

\* command: str = self.command_queue.get()
CommandFollowerGet ==
    /\ cf_pc = "get"
    /\ command_queue # << >>
    /\ cf_command' = Head(command_queue)
    /\ command_queue' = Tail(command_queue)
    /\ cf_pc' = "acquire"
    /\ UNCHANGED << aux_vars, us_vars, ir_vars, snd_vars, fc2_vars, shared, android_queue, rpi_action_queue, path_queue, stm_link,
                    next_id, ra_vars, rpi_vars, cf_sent, stm_vars >>

\* self.movement_lock.acquire()
CommandFollowerAcquire ==
    /\ cf_pc = "acquire"
    /\ movement_lock = FALSE
    /\ movement_lock' = TRUE
    /\ cf_pc' = "dispatch"
    /\ UNCHANGED << aux_vars, us_vars, ir_vars, snd_vars, fc2_vars, robot_mode, unpause, android_queue, rpi_action_queue, command_queue,
                    path_queue, stm_link, next_id, ra_vars, rpi_vars, cf_command,
                    cf_sent, stm_vars >>

\* a command with an STM32 prefix is sent as it is; the lock stays held
CommandFollowerSend ==
    /\ cf_pc = "dispatch"
    /\ IsStmCommand(cf_command.cmd)
    /\ stm_link' = StmSend(stm_link, cf_command.cmd, "command_follower", cf_command.id)
    /\ cf_sent' = cf_command.id
    /\ cf_pc' = "get" /\ cf_command' = NoCommand
    /\ UNCHANGED << aux_vars, us_vars, ir_vars, snd_vars, fc2_vars, shared, android_queue, rpi_action_queue, command_queue, path_queue,
                    next_id, ra_vars, rpi_vars, stm_vars >>

\* WN: two messages for the operator; the lock stays held
CommandFollowerWN ==
    /\ HasRoom(android_queue, 2)
    /\ cf_pc = "dispatch"
    /\ ~IsStmCommand(cf_command.cmd)
    /\ StartsWith(cf_command.cmd, WN)
    /\ android_queue' = android_queue \o
          << AndroidMessage("status", "running"),
             AndroidMessage("info", "Starting robot on fastest car!") >>
    /\ cf_pc' = "get" /\ cf_command' = NoCommand
    /\ UNCHANGED << aux_vars, us_vars, ir_vars, snd_vars, fc2_vars, shared, rpi_action_queue, command_queue, path_queue, stm_link,
                    next_id, ra_vars, rpi_vars, cf_sent, stm_vars >>

\* SNAP<id> (path mode): a snap PiAction; the lock stays held
CommandFollowerSnap ==
    /\ cf_pc = "dispatch"
    /\ ~IsStmCommand(cf_command.cmd)
    /\ ~StartsWith(cf_command.cmd, WN)
    /\ StartsWith(cf_command.cmd, <<"S", "N", "A", "P">>)
    /\ rpi_action_queue' =
          Append(rpi_action_queue, PiAction("snap", StripSnap(cf_command.cmd)))
    /\ cf_pc' = "get" /\ cf_command' = NoCommand
    /\ UNCHANGED << aux_vars, us_vars, ir_vars, snd_vars, fc2_vars, shared, android_queue, command_queue, path_queue, stm_link,
                    next_id, ra_vars, rpi_vars, cf_sent, stm_vars >>

\* MANSNAP (manual mode): a snap PiAction for obstacle 99; the lock stays held
CommandFollowerManSnap ==
    /\ cf_pc = "dispatch"
    /\ ~IsStmCommand(cf_command.cmd)
    /\ ~StartsWith(cf_command.cmd, WN)
    /\ ~StartsWith(cf_command.cmd, <<"S", "N", "A", "P">>)
    /\ StartsWith(cf_command.cmd, MANSNAP)
    /\ rpi_action_queue' = Append(rpi_action_queue, PiAction("snap", <<"9", "9">>))
    /\ cf_pc' = "get" /\ cf_command' = NoCommand
    /\ UNCHANGED << aux_vars, us_vars, ir_vars, snd_vars, fc2_vars, shared, android_queue, command_queue, path_queue, stm_link,
                    next_id, ra_vars, rpi_vars, cf_sent, stm_vars >>

\* the branches of the dispatch that come before NOOP do not match
NotBeforeNoop(c) ==
    /\ ~IsStmCommand(c)
    /\ ~StartsWith(c, WN)
    /\ ~StartsWith(c, <<"S", "N", "A", "P">>)
    /\ ~StartsWith(c, MANSNAP)

\* NOOP: self.movement_lock.release(), outside any try: releasing a lock
\* that is not held raises and the exception ends the sequencer process
CommandFollowerNoop ==
    /\ cf_pc = "dispatch"
    /\ NotBeforeNoop(cf_command.cmd)
    /\ StartsWith(cf_command.cmd, NOOP)
    /\ IF movement_lock
         THEN /\ movement_lock' = FALSE
              /\ cf_pc' = "get" /\ cf_command' = NoCommand
         ELSE /\ cf_pc' = "raised"
              /\ UNCHANGED << movement_lock, cf_command >>
    /\ UNCHANGED << aux_vars, us_vars, ir_vars, snd_vars, fc2_vars, robot_mode, unpause, android_queue, rpi_action_queue, command_queue,
                    path_queue, stm_link, next_id, ra_vars, rpi_vars, cf_sent, stm_vars >>

\* FIN: self.stm_link.send("ZZ01"); self.unpause.clear()
CommandFollowerFin ==
    /\ cf_pc = "dispatch"
    /\ NotBeforeNoop(cf_command.cmd)
    /\ ~StartsWith(cf_command.cmd, NOOP)
    /\ cf_command.cmd = FIN
    /\ stm_link' = StmSend(stm_link, ZZ01, "fin", 0)
    /\ unpause' = FALSE
    /\ cf_pc' = "fin_release"
    /\ UNCHANGED << aux_vars, us_vars, ir_vars, snd_vars, fc2_vars, robot_mode, movement_lock, android_queue, rpi_action_queue,
                    command_queue, path_queue, next_id, ra_vars, rpi_vars, cf_command,
                    cf_sent, stm_vars >>

\* FIN: self.movement_lock.release(), outside any try, then the two messages
\* and the stitch PiAction
CommandFollowerFinRelease ==
    /\ cf_pc = "fin_release"
    /\ IF movement_lock
         THEN /\ HasRoom(android_queue, 2)
              /\ movement_lock' = FALSE
              /\ android_queue' = android_queue \o
                    << AndroidMessage("info", "Commands queue finished."),
                       AndroidMessage("status", "finished") >>
              /\ rpi_action_queue' = Append(rpi_action_queue, PiAction("stitch", <<>>))
              /\ cf_pc' = "get" /\ cf_command' = NoCommand
              /\ fin_done' = ~unpause
         ELSE /\ cf_pc' = "raised"
              /\ UNCHANGED << movement_lock, android_queue, rpi_action_queue, cf_command,
                              fin_done >>
    /\ UNCHANGED << drain_id, fc_vars, rc_vars, us_vars, ir_vars, snd_vars, fc2_vars, robot_mode, unpause, command_queue, path_queue, stm_link, next_id,
                    ra_vars, rpi_vars, cf_sent, stm_vars >>

\* a sequencer that drops an unknown command and goes on
CommandFollowerUnknownSkipped ==
    /\ cf_pc = "dispatch"
    /\ NotBeforeNoop(cf_command.cmd)
    /\ ~StartsWith(cf_command.cmd, NOOP)
    /\ cf_command.cmd # FIN
    /\ cf_pc' = "get" /\ cf_command' = NoCommand
    /\ UNCHANGED << aux_vars, us_vars, ir_vars, snd_vars, fc2_vars, shared, android_queue, rpi_action_queue, command_queue,
                    path_queue, stm_link, next_id, ra_vars, rpi_vars, cf_sent, stm_vars >>

\* raise Exception(f"Unknown command: {command}")
CommandFollowerUnknown ==
    /\ cf_pc = "dispatch"
    /\ NotBeforeNoop(cf_command.cmd)
    /\ ~StartsWith(cf_command.cmd, NOOP)
    /\ cf_command.cmd # FIN
    /\ cf_pc' = "raised"
    /\ UNCHANGED << aux_vars, us_vars, ir_vars, snd_vars, fc2_vars, shared, android_queue, rpi_action_queue, command_queue, path_queue,
                    stm_link, next_id, ra_vars, rpi_vars, cf_command, cf_sent, stm_vars >>

\* ------------------------------------------------ ack listener (recv_stm)
\* message = self.stm_link.recv() is the controller's ACK of the oldest
\* transmission it has not answered; self.movement_lock.release() inside the
\* try: when the lock is not held the exception skips the rest of the try
RecvStmAck ==
    /\ stm_pc = "recv"
    /\ stm_link # << >>
    /\ stm_link' = Tail(stm_link)
    /\ IF movement_lock
         THEN /\ movement_lock' = FALSE
              /\ stm_pc' = "mode" /\ stm_msg' = Head(stm_link)
         ELSE UNCHANGED << movement_lock, stm_pc, stm_msg >>
    /\ UNCHANGED << aux_vars, us_vars, ir_vars, snd_vars, fc2_vars, robot_mode, unpause, android_queue, rpi_action_queue, command_queue,
                    path_queue, next_id, ra_vars, rpi_vars, cf_vars, unknown_left >>

\* if self.robot_mode.value == 1: ... else: (the ACK is not "ACK|X")
RecvStmMode ==
    /\ stm_pc = "mode"
    /\ IF robot_mode = 1
         THEN /\ stm_pc' = "pop" /\ UNCHANGED stm_msg
         ELSE /\ stm_pc' = "recv" /\ stm_msg' = NoAck
    /\ UNCHANGED << aux_vars, us_vars, ir_vars, snd_vars, fc2_vars, shared, android_queue, rpi_action_queue, command_queue, path_queue,
                    stm_link, next_id, ra_vars, rpi_vars, cf_vars, unknown_left >>

\* temp = self.path_queue.get_nowait(); android_queue.put(location); an empty
\* path queue raises queue.Empty, which the except of the try swallows
RecvStmLocation ==
    /\ stm_pc = "pop"
    /\ IF path_queue # << >>
         THEN /\ HasRoom(android_queue, 1)
              /\ path_queue' = Tail(path_queue)
              /\ android_queue' = Append(android_queue,
                    AndroidMessage("location",
                       [x |-> Head(path_queue).x, y |-> Head(path_queue).y,
                        d |-> Head(path_queue).d]))
         ELSE UNCHANGED << path_queue, android_queue >>
    /\ stm_pc' = "recv" /\ stm_msg' = NoAck
    /\ UNCHANGED << aux_vars, us_vars, ir_vars, snd_vars, fc2_vars, shared, rpi_action_queue, command_queue, stm_link, next_id,
                    ra_vars, rpi_vars, cf_vars, unknown_left >>

\* a message that does not start with ACK and releases the lock all the same
RecvStmUnknownReleases ==
    /\ stm_pc = "recv"
    /\ unknown_left > 0
    /\ unknown_left' = unknown_left - 1
    /\ movement_lock' = FALSE
    /\ UNCHANGED << aux_vars, us_vars, ir_vars, snd_vars, fc2_vars, robot_mode, unpause, android_queue, rpi_action_queue,
                    command_queue, path_queue, stm_link, next_id, ra_vars, rpi_vars, cf_vars,
                    stm_pc, stm_msg >>

\* message = self.stm_link.recv() does not start with ACK: it is logged and
\* ignored, and the loop receives again
RecvStmUnknown ==
    /\ stm_pc = "recv"
    /\ unknown_left > 0
    /\ unknown_left' = unknown_left - 1
    /\ UNCHANGED << aux_vars, us_vars, ir_vars, snd_vars, fc2_vars, shared, android_queue, rpi_action_queue,
                    command_queue, path_queue, stm_link, next_id, ra_vars, rpi_vars, cf_vars,
                    stm_pc, stm_msg >>

\* the controller plays a buzzer code without acknowledging it
ControllerBuzz ==
    /\ stm_link # << >>
    /\ StartsWith(Head(stm_link).cmd, <<"Z", "Z">>)
    /\ stm_link' = Tail(stm_link)
    /\ UNCHANGED << aux_vars, us_vars, ir_vars, snd_vars, fc2_vars, shared, android_queue, rpi_action_queue, command_queue, path_queue,
                    next_id, ra_vars, rpi_vars, cf_vars, stm_vars >>

\* ------------------------------------------------ front sensor loop (set_us_flag)
\* a loop that leaves the count and the flag alone on a far sample
SetUsFlagNoReset ==
    /\ samples_left > 0
    /\ \E dist \in Distances :
         /\ compensate_ydist' = dist
         /\ obstacle_count_short' =
               IF dist <= us_threshold THEN obstacle_count_short + 1
               ELSE obstacle_count_short
         /\ ultrasonic_is_clear' =
               IF obstacle_count_short' = 2 THEN 0 ELSE ultrasonic_is_clear
    /\ samples_left' = samples_left - 1
    /\ UNCHANGED << aux_vars, ir_vars, snd_vars, fc2_vars, shared, android_queue, rpi_action_queue, command_queue, path_queue,
                    stm_link, next_id, ra_vars, rpi_vars, cf_vars, stm_vars >>

\* one iteration of the loop: a sample, the count, the flag
SetUsFlag ==
    /\ samples_left > 0
    /\ \E dist \in Distances :
         /\ compensate_ydist' = dist
         /\ obstacle_count_short' =
               IF dist <= us_threshold THEN obstacle_count_short + 1 ELSE 0
         /\ ultrasonic_is_clear' =
               IF obstacle_count_short' = 2 THEN 0
               ELSE IF dist <= us_threshold THEN ultrasonic_is_clear ELSE 1
    /\ samples_left' = samples_left - 1
    /\ UNCHANGED << aux_vars, ir_vars, snd_vars, fc2_vars, shared, android_queue, rpi_action_queue, command_queue, path_queue,
                    stm_link, next_id, ra_vars, rpi_vars, cf_vars, stm_vars >>

NextSensor == SetUsFlag

SpecSensor == InitSensor /\ [][NextSensor]_vars

\* ------------------------------------------------ reconnect handler (reconnect_android)
\* everything a step of the handler or a link drop leaves alone
rc_rest == << hist_vars, fc_vars, fc2_vars, us_vars, ir_vars, shared, rpi_action_queue, command_queue,
              path_queue, next_id, session, msgs_left, loads_left, rpi_vars, cf_vars,
              stm_vars >>

\* rc_rest and the operator sender
rc_rest_snd == << rc_rest, snd_vars >>

\* recv_android: self.android_link.recv() raises OSError, android_dropped.set()
RecvAndroidDropped ==
    /\ ra_pc = "recv" /\ proc_recv_android > 0
    /\ drops_left > 0
    /\ android_dropped' = TRUE
    /\ drops_left' = drops_left - 1
    /\ UNCHANGED connect_drops
    /\ UNCHANGED << rc_rest_snd, rc_pc, proc_recv_android, proc_android_sender, kill_sent,
                    android_queue, stm_link, ra_pc, ra_msg >>

\* a sender that takes the newest message of the queue
AndroidSenderGetNewest ==
    /\ proc_android_sender > 0 /\ snd_pc = "get"
    /\ android_queue # << >>
    /\ snd_msg' = android_queue[Len(android_queue)]
    /\ snd_no' = aq_taken + Len(android_queue)
    /\ aq_taken' = aq_taken + 1
    /\ android_queue' = SubSeq(android_queue, 1, Len(android_queue) - 1)
    /\ snd_pc' = "send"
    /\ UNCHANGED << rc_rest, rc_vars, sent_no, stm_link, ra_pc, ra_msg >>

\* android_sender: message = self.android_queue.get(timeout=0.5); the queue
\* hands out its oldest message
AndroidSenderGet ==
    /\ proc_android_sender > 0 /\ snd_pc = "get"
    /\ android_queue # << >>
    /\ snd_msg' = Head(android_queue)
    /\ snd_no' = aq_taken + 1
    /\ aq_taken' = aq_taken + 1
    /\ android_queue' = Tail(android_queue)
    /\ snd_pc' = "send"
    /\ UNCHANGED << rc_rest, rc_vars, sent_no, stm_link, ra_pc, ra_msg >>

\* self.android_link.send(message) transmits the message in hand
AndroidSenderSend ==
    /\ proc_android_sender > 0 /\ snd_pc = "send"
    /\ sent_no' = snd_no
    /\ snd_pc' = "get" /\ snd_msg' = NoMessage /\ snd_no' = 0
    /\ UNCHANGED << rc_rest, rc_vars, aq_taken, android_queue, stm_link, ra_pc, ra_msg >>

\* self.android_link.send(message) raises OSError: android_dropped.set(); the
\* message in hand is not transmitted
AndroidSenderDropped ==
    /\ proc_android_sender > 0 /\ snd_pc = "send"
    /\ drops_left > 0
    /\ android_dropped' = TRUE
    /\ drops_left' = drops_left - 1
    /\ UNCHANGED connect_drops
    /\ snd_pc' = "get" /\ snd_msg' = NoMessage /\ snd_no' = 0
    /\ UNCHANGED << rc_rest, rc_pc, proc_recv_android, proc_android_sender, kill_sent,
                    aq_taken, sent_no, android_queue, stm_link, ra_pc, ra_msg >>

\* the kill ends the operator sender process, whatever it has in hand
AndroidSenderKilled ==
    /\ "android_sender" \in kill_sent
    /\ kill_sent' = kill_sent \ {"android_sender"}
    /\ proc_android_sender' = proc_android_sender - 1
    /\ snd_pc' = IF proc_android_sender = 1 THEN "killed" ELSE snd_pc
    /\ snd_msg' = NoMessage /\ snd_no' = 0
    /\ UNCHANGED << rc_rest, rc_pc, android_dropped, proc_recv_android, drops_left, connect_drops,
                    aq_taken, sent_no, android_queue, stm_link, ra_pc, ra_msg >>

\* the kill ends the operator receiver process
RecvAndroidKilled ==
    /\ "recv_android" \in kill_sent
    /\ kill_sent' = kill_sent \ {"recv_android"}
    /\ proc_recv_android' = proc_recv_android - 1
    /\ ra_pc' = IF proc_recv_android = 1 THEN "killed" ELSE ra_pc
    /\ ra_msg' = NoMessage
    /\ IF proc_recv_android = 1
         THEN /\ fc_ret' = << >> /\ fc_i' = 0 /\ gap_i' = 0 /\ max_list' = << >>
              /\ first_arrow_dir' = "none" /\ second_arrow_dir' = "none"
         ELSE UNCHANGED << fc_ret, fc_i, gap_i, max_list, first_arrow_dir, second_arrow_dir >>
    /\ UNCHANGED << hist_vars, between_obstacles_ydist, total_xdist, arrow_requests,
                    arrow_reads, us_vars, ir_vars, snd_vars, shared, rpi_action_queue,
                    command_queue, path_queue, next_id, session, msgs_left, loads_left,
                    rpi_vars, cf_vars, stm_vars, rc_pc, android_dropped,
                    proc_android_sender, drops_left, connect_drops, android_queue, stm_link >>

\* self.android_dropped.wait()
ReconnectWait ==
    /\ rc_pc = "wait"
    /\ android_dropped
    /\ rc_pc' = "buzz3"
    /\ UNCHANGED << rc_rest_snd, android_dropped, proc_recv_android, proc_android_sender,
                    kill_sent, drops_left, connect_drops, android_queue, stm_link, ra_pc, ra_msg >>

\* self.stm_link.send("ZZ03")
ReconnectBuzzDown ==
    /\ rc_pc = "buzz3"
    /\ stm_link' = StmSend(stm_link, ZZ03, "reconnect_android", 0)
    /\ rc_pc' = "kill_sender"
    /\ UNCHANGED << rc_rest_snd, android_dropped, proc_recv_android, proc_android_sender,
                    kill_sent, drops_left, connect_drops, android_queue, ra_pc, ra_msg >>

\* self.proc_android_sender.kill()
ReconnectKillSender ==
    /\ rc_pc = "kill_sender"
    /\ kill_sent' = IF proc_android_sender > 0 THEN kill_sent \cup {"android_sender"}
                                               ELSE kill_sent
    /\ rc_pc' = "kill_receiver"
    /\ UNCHANGED << rc_rest_snd, android_dropped, proc_recv_android, proc_android_sender,
                    drops_left, connect_drops, android_queue, stm_link, ra_pc, ra_msg >>

\* self.proc_recv_android.kill()
ReconnectKillReceiver ==
    /\ rc_pc = "kill_receiver"
    /\ kill_sent' = IF proc_recv_android > 0 THEN kill_sent \cup {"recv_android"}
                                             ELSE kill_sent
    /\ rc_pc' = "join_sender"
    /\ UNCHANGED << rc_rest_snd, android_dropped, proc_recv_android, proc_android_sender,
                    drops_left, connect_drops, android_queue, stm_link, ra_pc, ra_msg >>

\* self.proc_android_sender.join(): returns when the process has ended
ReconnectJoinSender ==
    /\ rc_pc = "join_sender"
    /\ proc_android_sender = 0
    /\ rc_pc' = "join_receiver"
    /\ UNCHANGED << rc_rest_snd, android_dropped, proc_recv_android, proc_android_sender,
                    kill_sent, drops_left, connect_drops, android_queue, stm_link, ra_pc, ra_msg >>

\* a join that returns while the process is alive
ReconnectJoinReceiverNoWait ==
    /\ rc_pc = "join_receiver"
    /\ rc_pc' = "start_receiver"
    /\ connect_drops' = drops_left
    /\ UNCHANGED << rc_rest_snd, android_dropped, proc_recv_android, proc_android_sender,
                    kill_sent, drops_left, android_queue, stm_link, ra_pc, ra_msg >>

\* self.proc_recv_android.join(); the two asserts hold; the link is
\* disconnected and connected again
ReconnectJoinReceiver ==
    /\ rc_pc = "join_receiver"
    /\ proc_recv_android = 0
    /\ rc_pc' = "start_receiver"
    /\ connect_drops' = drops_left
    /\ UNCHANGED << rc_rest_snd, android_dropped, proc_recv_android, proc_android_sender,
                    kill_sent, drops_left, android_queue, stm_link, ra_pc, ra_msg >>

\* self.proc_recv_android = Process(target=self.recv_android), .start()
ReconnectStartReceiver ==
    /\ rc_pc = "start_receiver"
    /\ proc_recv_android' = proc_recv_android + 1
    /\ ra_pc' = "recv" /\ ra_msg' = NoMessage
    /\ rc_pc' = "start_sender"
    /\ UNCHANGED << rc_rest_snd, android_dropped, proc_android_sender, kill_sent, drops_left, connect_drops,
                    android_queue, stm_link >>

\* self.proc_android_sender = Process(target=self.android_sender), .start()
ReconnectStartSender ==
    /\ rc_pc = "start_sender"
    /\ proc_android_sender' = proc_android_sender + 1
    /\ rc_pc' = "put_info"
    /\ snd_pc' = "get" /\ snd_msg' = NoMessage /\ snd_no' = 0
    /\ UNCHANGED << rc_rest, aq_taken, sent_no, android_dropped, proc_recv_android, kill_sent, drops_left, connect_drops,
                    android_queue, stm_link, ra_pc, ra_msg >>

\* self.android_queue.put(AndroidMessage("info", "You are reconnected!"))
ReconnectPutInfo ==
    /\ rc_pc = "put_info"
    /\ HasRoom(android_queue, 1)
    /\ android_queue' = Append(android_queue, AndroidMessage("info", "You are reconnected!"))
    /\ rc_pc' = "put_mode"
    /\ UNCHANGED << rc_rest_snd, android_dropped, proc_recv_android, proc_android_sender,
                    kill_sent, drops_left, connect_drops, stm_link, ra_pc, ra_msg >>

\* self.android_queue.put(AndroidMessage('mode', 'path' if robot_mode == 1 else 'manual'))
ReconnectPutMode ==
    /\ rc_pc = "put_mode"
    /\ HasRoom(android_queue, 1)
    /\ android_queue' = Append(android_queue, AndroidMessage("mode", ModeName(robot_mode)))
    /\ rc_pc' = "buzz2"
    /\ UNCHANGED << rc_rest_snd, android_dropped, proc_recv_android, proc_android_sender,
                    kill_sent, drops_left, connect_drops, stm_link, ra_pc, ra_msg >>

\* self.stm_link.send("ZZ02")
ReconnectBuzzUp ==
    /\ rc_pc = "buzz2"
    /\ stm_link' = StmSend(stm_link, ZZ02, "reconnect_android", 0)
    /\ rc_pc' = "clear"
    /\ UNCHANGED << rc_rest_snd, android_dropped, proc_recv_android, proc_android_sender,
                    kill_sent, drops_left, connect_drops, android_queue, ra_pc, ra_msg >>

\* self.android_dropped.clear()
ReconnectClear ==
    /\ rc_pc = "clear"
    /\ android_dropped' = FALSE
    /\ rc_pc' = "wait"
    /\ UNCHANGED << rc_rest_snd, proc_recv_android, proc_android_sender, kill_sent, drops_left, connect_drops,
                    android_queue, stm_link, ra_pc, ra_msg >>

\* ------------------------------------------------ proximity loops (set_irl_flag, set_irr_flag)
ir_rest == << aux_vars, us_vars, snd_vars, fc2_vars, shared, android_queue, rpi_action_queue, command_queue,
              path_queue, stm_link, next_id, ra_vars, rpi_vars, cf_vars, stm_vars >>

\* a left loop that reports blocked only at the second zero reading in a row
SetIrlFlagDebounced ==
    /\ irl_samples_left > 0
    /\ \E wall \in IrReadings :
         /\ wall_left' = wall
         /\ ir_left_is_clear' = IF wall # 0 THEN 1
                                ELSE IF wall_left = 0 THEN 0 ELSE ir_left_is_clear
    /\ irl_samples_left' = irl_samples_left - 1
    /\ UNCHANGED << ir_rest, ir_right_is_clear, wall_right, irr_samples_left >>

\* set_irl_flag, one iteration: wall = sensors.readL(); if (wall): flag 1 else 0
SetIrlFlag ==
    /\ irl_samples_left > 0
    /\ \E wall \in IrReadings :
         /\ wall_left' = wall
         /\ ir_left_is_clear' = IF wall # 0 THEN 1 ELSE 0
    /\ irl_samples_left' = irl_samples_left - 1
    /\ UNCHANGED << ir_rest, ir_right_is_clear, wall_right, irr_samples_left >>

\* set_irr_flag, one iteration: wall = sensors.readR(); if (wall): flag 1 else 0
SetIrrFlag ==
    /\ irr_samples_left > 0
    /\ \E wall \in IrReadings :
         /\ wall_right' = wall
         /\ ir_right_is_clear' = IF wall # 0 THEN 1 ELSE 0
    /\ irr_samples_left' = irr_samples_left - 1
    /\ UNCHANGED << ir_rest, ir_left_is_clear, wall_left, irl_samples_left >>

NextIr ==
    \/ SetIrlFlag
    \/ SetIrrFlag
    \/ SetUsFlag

SpecIr == InitIr /\ [][NextIr]_vars

\* ------------------------------------------------ the coordinator
\* the steps that both kinds of session take
Common ==
    \/ RecvAndroidMode
    \/ RecvAndroidManual
    \/ RecvAndroidPutCommand
    \/ AndroidSender
    \/ ChangeModeReject
    \/ ChangeModeAccept
    \/ RequestStitch
    \/ RpiActionIgnored
    \/ ClearQueuesCommandEmpty
    \/ ClearQueuesCommandGet
    \/ ClearQueuesPathEmpty
    \/ ChangeModeRelease
    \/ ChangeModeNotify
    \/ CommandFollowerGet
    \/ CommandFollowerAcquire
    \/ CommandFollowerSend
    \/ CommandFollowerSnap
    \/ CommandFollowerNoop
    \/ CommandFollowerFin
    \/ CommandFollowerFinRelease
    \/ RecvStmAck
    \/ RecvStmMode
    \/ RecvStmLocation
    \/ ControllerBuzz

\* a session that starts in Manual mode: mode changes and manual commands
Next ==
    \/ Common
    \/ CommandFollowerWN
    \/ CommandFollowerManSnap
    \/ CommandFollowerUnknown
    \/ RecvStmUnknown

Spec == Init /\ [][Next]_vars

\* a session that starts in Path mode: the fixed path is loaded
NextPath ==
    \/ Common
    \/ RecvAndroidSingleObstacle
    \/ RecvAndroidPutAction
    \/ AddNavigatePath
    \/ ClearQueuesPathGet
    \/ NavigatePutCommand
    \/ NavigatePutWaypoint
    \/ NavigateInfo

SpecPath == InitPath /\ [][NextPath]_vars

\* a fastest run up to the end of the obstacle-1 script; the path queue is
\* empty throughout
NextRun ==
    \/ RecvAndroidManual
    \/ MoveUntilCheck
    \/ FcClearQueuesCommandEmpty
    \/ FcClearQueuesCommandGet
    \/ FcClearQueuesPathEmpty
    \/ MoveUntilPutForward
    \/ MoveUntilWait
    \/ MoveUntilPutStop
    \/ DetectArrowImage
    \/ ClearFirstObstacle
    \/ ClearFirstObstaclePut
    \/ SetUsFlag
    \/ AndroidSender
    \/ CommandFollowerGet
    \/ CommandFollowerAcquire
    \/ CommandFollowerSend
    \/ RecvStmAck
    \/ RecvStmMode

SpecRun == InitRun /\ [][NextRun]_vars

\* the gap measurement of a fastest run beside the front sensor loop
NextGap ==
    \/ GapTest
    \/ GapAppend
    \/ GapStore
    \/ SetUsFlag

SpecGap == InitGap /\ [][NextGap]_vars

\* a session in which the operator link drops and the operator changes the mode
NextReconnect ==
    \/ RecvAndroidMode
    \/ RecvAndroidDropped
    \/ RecvAndroidKilled
    \/ AndroidSenderGet
    \/ AndroidSenderSend
    \/ AndroidSenderDropped
    \/ AndroidSenderKilled
    \/ ReconnectWait
    \/ ReconnectBuzzDown
    \/ ReconnectKillSender
    \/ ReconnectKillReceiver
    \/ ReconnectJoinSender
    \/ ReconnectJoinReceiver
    \/ ReconnectStartReceiver
    \/ ReconnectStartSender
    \/ ReconnectPutInfo
    \/ ReconnectPutMode
    \/ ReconnectBuzzUp
    \/ ReconnectClear
    \/ ChangeModeReject
    \/ ChangeModeAccept
    \/ ClearQueuesCommandEmpty
    \/ ClearQueuesPathEmpty
    \/ ChangeModeRelease
    \/ ChangeModeNotify
    \/ RecvStmAck
    \/ ControllerBuzz

SpecReconnect == InitReconnect /\ [][NextReconnect]_vars

\* a fastest run from the second approach to its buzzer code, beside the
\* three sensor loops
NextObstacle2 ==
    \/ MoveUntilCheck
    \/ FcClearQueuesCommandEmpty
    \/ FcClearQueuesCommandGet
    \/ FcClearQueuesPathEmpty
    \/ MoveUntilPutForward
    \/ MoveUntilWait
    \/ MoveUntilPutStop
    \/ DetectSecondArrow
    \/ P1Back
    \/ P1Dist
    \/ P1TurnPut
    \/ MovePastFirst
    \/ MovePastFirstPut
    \/ MovePastLoop
    \/ MovePastFinal
    \/ P1WidthPut
    \/ P2Put
    \/ P3Put
    \/ ReturnHomeGapPut
    \/ ReturnHomeTurn
    \/ ReturnHomeTurnPut
    \/ ReturnHomeRestPut
    \/ ReturnHome2Check
    \/ ReturnHome2Wait
    \/ ReturnHome2Stop
    \/ FastestCarBuzz
    \/ SetUsFlag
    \/ SetIrlFlag
    \/ SetIrrFlag

\* the maneuvers of a fastest run: the clearing of obstacle 1 up to the gap
\* measurement, and the run from the second approach on
InitManeuvers == InitFirstObstacle \/ InitObstacle2

NextManeuvers ==
    \/ NextObstacle2
    \/ ClearFirstObstacle
    \/ ClearFirstObstaclePut

SpecManeuvers == InitManeuvers /\ [][NextManeuvers]_vars

\* a fastest run from the second approach on, beside the operator sender, the
\* reconnect handler and the sensor loops
NextRunDrop ==
    \/ NextObstacle2
    \/ RecvAndroidDropped
    \/ RecvAndroidKilled
    \/ AndroidSenderGet
    \/ AndroidSenderSend
    \/ AndroidSenderDropped
    \/ AndroidSenderKilled
    \/ ReconnectWait
    \/ ReconnectBuzzDown
    \/ ReconnectKillSender
    \/ ReconnectKillReceiver
    \/ ReconnectJoinSender
    \/ ReconnectJoinReceiver
    \/ ReconnectStartReceiver
    \/ ReconnectStartSender
    \/ ReconnectPutInfo
    \/ ReconnectPutMode
    \/ ReconnectBuzzUp
    \/ ReconnectClear

SpecRunDrop == InitRunDrop /\ [][NextRunDrop]_vars

\* clear_second_obstacle_p2 putting its turn and the crossing
NextCross == P2Put

SpecCross == InitCross /\ [][NextCross]_vars

\* return_home reissuing the stored gap
NextHome == ReturnHomeGapPut

SpecHome == InitHome /\ [][NextHome]_vars

\* a session in Path mode with `control` `start` messages; its one load finds
\* both queues empty, so the drain takes nothing off them
NextControl ==
    \/ RecvAndroidControl
    \/ ControlCheckApi
    \/ ControlStart
    \/ RecvAndroidSingleObstacle
    \/ RecvAndroidPutAction
    \/ AndroidSender
    \/ AddNavigatePath
    \/ ClearQueuesCommandEmpty
    \/ ClearQueuesPathEmpty
    \/ NavigatePutCommand
    \/ NavigatePutWaypoint
    \/ NavigateInfo
    \/ RpiActionIgnored
    \/ CommandFollowerGet
    \/ CommandFollowerAcquire
    \/ CommandFollowerSend
    \/ CommandFollowerSnap
    \/ CommandFollowerNoop
    \/ RecvStmAck
    \/ RecvStmMode
    \/ RecvStmLocation
    \/ ControllerBuzz

SpecControl == InitControl /\ [][NextControl]_vars


\* ================================================================ claims
\* C1: in every reachable state at most one command transmitted by the
\* sequencer is unacknowledged (its ACK not yet taken by the ack listener).
C1_OneInFlight ==
    Cardinality({i \in DOMAIN stm_link : stm_link[i].src = "command_follower"}) <= 1

\* C2: the sequencer transmits commands in the order of their enqueue: the
\* enqueue id of every transmitted command is larger than the id of the
\* command transmitted before it (no reordering, no duplication).
C2_FifoOrder == [][cf_sent' # cf_sent => cf_sent' > cf_sent]_vars

\* the ack of the first command is being handled while the second command,
\* enqueued after it, is the one transmitted last
C2_Witness ==
    /\ stm_pc = "mode"
    /\ stm_msg.src = "command_follower" /\ stm_msg.id = 1
    /\ cf_sent = 2

\* C3: every ACK that releases the movement lock is the ACK of the command
\* the sequencer sent most recently.
C3_AckOfLastSent ==
    [][(stm_pc = "recv" /\ stm_pc' = "mode")
         => (Head(stm_link).src = "command_follower" /\ Head(stm_link).id = cf_sent)]_vars

\* C4: the sequencer never ends on the release of NOOP or FIN, whoever
\* released the lock between its acquire and its own release.
C4_ReleaseNeverRaises ==
    ~(cf_pc = "raised" /\ (StartsWith(cf_command.cmd, NOOP) \/ cf_command.cmd = FIN))

\* C5: when an accepted mode transition completes (its last step, the buzzer),
\* the command queue and the path queue are both empty.
C5_DrainedAtCompletion ==
    [][(rpi_pc = "cm_notify" /\ rpi_pc' = "get")
         => (command_queue' = << >> /\ path_queue' = << >>)]_vars

\* C6: the dispatcher's step that takes a request for the mode the robot is
\* already in changes neither the mode, the two queues, the unpause event nor
\* the lock, sends nothing to the controller, and puts exactly one error
\* message on the outbound queue.
C6_SameModeRejected ==
    [][(/\ rpi_pc = "get" /\ rpi_action_queue # << >>
        /\ rpi_action_queue' = Tail(rpi_action_queue)
        /\ Head(rpi_action_queue).cat = "mode"
        /\ Head(rpi_action_queue).value = <<ModeName(robot_mode)>>)
         => (/\ robot_mode' = robot_mode
             /\ command_queue' = command_queue /\ path_queue' = path_queue
             /\ unpause' = unpause /\ movement_lock' = movement_lock
             /\ stm_link' = stm_link
             /\ rpi_pc' = "get"
             /\ Len(android_queue') = Len(android_queue) + 1
             /\ SubSeq(android_queue', 1, Len(android_queue)) = android_queue
             /\ android_queue'[Len(android_queue')].cat = "error")]_vars

\* an error for a refused request is on the outbound queue and the robot is
\* still in the mode it started in, with a command waiting in the queue
C6_Witness ==
    /\ \E i \in DOMAIN android_queue :
          /\ android_queue[i].cat = "error"
          /\ android_queue[i].value = "Robot already in Manual mode."
    /\ robot_mode = 0
    /\ command_queue # << >>

\* C7 as stated: in every reachable state the path queue is no longer than
\* the command queue.
C7_PathWithinCommands == Len(path_queue) <= Len(command_queue)

\* C7: in every reachable state the path queue is no longer than the number
\* of commands the most recent load of the fixed path has put so far.
C7_PathWithinLoaded ==
    Len(path_queue) <= (IF rpi_pc = "nav_path" THEN rpi_i + 1 ELSE rpi_i)

\* the whole fixed path is loaded, every waypoint is still queued and the
\* sequencer has already taken commands off the command queue
C7_Witness ==
    /\ rpi_i = Len(hardcoded_path)
    /\ Len(path_queue) = Len(hardcoded_path)
    /\ Len(command_queue) < Len(path_queue)

C9_AckPopsOneWaypoint ==
    [][/\ (/\ stm_pc = "recv" /\ stm_link # << >> /\ stm_link' = Tail(stm_link)
           /\ Head(stm_link).src = "command_follower" /\ robot_mode = 1)
          => (movement_lock /\ ~movement_lock')
       /\ (stm_pc = "pop" /\ stm_pc' = "recv" /\ stm_msg.src = "command_follower")
          => (/\ path_queue # << >>
              /\ path_queue' = Tail(path_queue)
              /\ android_queue' = Append(android_queue,
                    [cat |-> "location",
                     value |-> [x |-> Head(path_queue).x, y |-> Head(path_queue).y,
                                d |-> Head(path_queue).d]]))
       /\ (cf_sent' # cf_sent /\ robot_mode = 1)
          => \A i \in DOMAIN stm_link : stm_link[i].src # "command_follower"]_vars

\* C10: the waypoint popped on the ACK of a command is the waypoint that was
\* enqueued together with that command.
C10_PoppedWaypointIsPaired ==
    [][(stm_pc = "pop" /\ stm_pc' = "recv" /\ path_queue' # path_queue)
         => Head(path_queue).id = stm_msg.id]_vars

\* C15: when the sequencer has dequeued a command outside the vocabulary, its
\* step ends the task and transmits nothing; an ended sequencer keeps the
\* command it holds and transmits nothing any more.
C15_UnknownTerminates ==
    [][/\ (/\ cf_pc = "dispatch" /\ cf_pc' # "dispatch"
           /\ NotBeforeNoop(cf_command.cmd)
           /\ ~StartsWith(cf_command.cmd, NOOP) /\ cf_command.cmd # FIN)
          => (cf_pc' = "raised" /\ stm_link' = stm_link /\ cf_sent' = cf_sent)
       /\ cf_pc = "raised"
          => (cf_pc' = "raised" /\ cf_command' = cf_command /\ cf_sent' = cf_sent)]_vars

\* the sequencer has ended on XX while a later command waits in the queue
C15_Witness ==
    /\ cf_pc = "raised" /\ cf_command.cmd = XX
    /\ command_queue # << >>

\* C17: the sequencer's processing of FIN sends ZZ01 and ends with the lock
\* free, the unpause event clear and exactly one stitch action put; and the
\* sequencer dequeues no command while FIN was processed and the unpause
\* event has not been set since.
C17_AfterFin ==
    [][/\ (cf_pc = "dispatch" /\ cf_pc' = "fin_release")
          => stm_link' = Append(stm_link, [cmd |-> ZZ01, src |-> "fin", id |-> 0])
       /\ (cf_pc = "fin_release" /\ cf_pc' # "fin_release")
          => (/\ cf_pc' = "get"
              /\ ~movement_lock' /\ ~unpause'
              /\ rpi_action_queue' = Append(rpi_action_queue, [cat |-> "stitch", value |-> <<>>]))
       /\ (cf_pc = "get" /\ cf_pc' = "acquire") => ~fin_done]_vars

\* C18: the receiver puts the command of a `manual` message on the command
\* queue only while the mode is Manual, and puts a `single-obstacle` action
\* only while the mode is Path.
C18_ModeGatedAdmission ==
    [][/\ (ra_pc = "manual_put" /\ ra_pc' = "recv") => robot_mode = 0
       /\ (ra_pc = "action_put" /\ ra_pc' = "recv") => robot_mode = 1]_vars

\* C19: a command enqueued before an accepted mode transition began and not
\* transmitted by then is never transmitted after it.
C19_DrainDiscards == [][cf_sent' # cf_sent => cf_sent' >= drain_id]_vars

\* C16: while the mode is Path the sequencer dequeues and transmits a command
\* only when the unpause event is set.
C16_PathNeedsStart ==
    [][/\ (cf_pc = "get" /\ cf_pc' = "acquire" /\ robot_mode = 1) => unpause
       /\ (cf_sent' # cf_sent /\ robot_mode = 1) => unpause]_vars

C11_ScriptOfFirstArrow ==
    [][LET expect == IF first_arrow_dir = "39" THEN << FL30, FR30, FR30, FL30 >>
                                               ELSE << FR30, FL30, FL30, FR30 >>
           n == Len(command_queue')
       IN  /\ (ra_pc # "cfo_put" /\ ra_pc' = "cfo_put") =>
                  (command_queue' = << >> /\ fc_i' = 0)
           /\ (ra_pc = "cfo_put" /\ fc_i' # fc_i) =>
                  /\ fc_i < 4 /\ fc_i' = fc_i + 1
                  /\ command_queue' =
                        Append(command_queue, [cmd |-> expect[fc_i'], id |-> next_id])
           /\ (ra_pc = "cfo_put" /\ ra_pc' # "cfo_put") =>
                  /\ fc_i' = 4 /\ n <= 4
                  /\ \A k \in 1..n : command_queue'[k].cmd = expect[4 - n + k]]_vars

\* C11 as stated: when the last command of the script is put, the script is
\* the whole content of the command queue.
C11_ScriptIsWholeQueue ==
    [][LET expect == IF first_arrow_dir = "39" THEN << FL30, FR30, FR30, FL30 >>
                                               ELSE << FR30, FL30, FL30, FR30 >>
       IN  (ra_pc = "cfo_put" /\ ra_pc' # "cfo_put") =>
               /\ Len(command_queue') = 4
               /\ \A k \in 1..4 : command_queue'[k].cmd = expect[k]]_vars

\* the left-arrow script has been put and none of it is dequeued yet
C11_Witness ==
    /\ ra_pc = "gap_test" /\ first_arrow_dir = "39"
    /\ Len(command_queue) = 4
    /\ \A k \in 1..4 : command_queue[k].cmd = << FL30, FR30, FR30, FL30 >>[k]

\* C13: when the gap is stored from a non-empty list of readings, every
\* reading in the list is below 150 and the stored gap is the largest of them
\* plus 70.
C13_GapIsMaxBelowLimit ==
    [][(ra_pc = "gap_store" /\ ra_pc' # "gap_store" /\ max_list # << >>) =>
          /\ \A k \in 1..Len(max_list) : max_list[k] < 150
          /\ \E k \in 1..Len(max_list) :
                /\ between_obstacles_ydist' = max_list[k] + 70
                /\ \A j \in 1..Len(max_list) : max_list[j] <= max_list[k]]_vars

\* C14: when none of the five readings qualified, the gap is stored as the
\* default 100 plus 70 and the run goes on to the approach of obstacle 2.
C14_DefaultGap ==
    [][(ra_pc = "gap_store" /\ ra_pc' # "gap_store" /\ max_list = << >>) =>
          (between_obstacles_ydist' = 100 + 70 /\ ra_pc' = "mu_check")]_vars

\* C12: at most one operator receiver and one operator sender are alive at
\* any time; the reconnect handler starts new ones only when the old receiver
\* and the old sender have both ended; the handler walks through its cycle in
\* order, and in a cycle it enqueues one "You are reconnected!" info and
\* after it one mode message with the robot mode of that moment, and nothing
\* else.
C12_ReconnectCycle ==
    [][LET cycle == << "wait", "buzz3", "kill_sender", "kill_receiver", "join_sender",
                       "join_receiver", "start_receiver", "start_sender", "put_info",
                       "put_mode", "buzz2", "clear" >>
           after(pc) == CHOOSE q \in {cycle[k] : k \in 1..12} :
                           \E k \in 1..12 : cycle[k] = pc /\ q = cycle[(k % 12) + 1]
       IN  /\ proc_recv_android <= 1 /\ proc_android_sender <= 1
           /\ proc_recv_android' <= 1 /\ proc_android_sender' <= 1
           /\ rc_pc' # rc_pc => rc_pc' = after(rc_pc)
           /\ rc_pc' = "start_receiver" =>
                 (proc_recv_android' = 0 /\ proc_android_sender' = 0)
           /\ (rc_pc' # rc_pc /\ rc_pc = "start_receiver") =>
                 (proc_recv_android' = 1 /\ proc_android_sender' = 0)
           /\ (rc_pc' # rc_pc /\ rc_pc = "start_sender") =>
                 (proc_recv_android' = 1 /\ proc_android_sender' = 1)
           /\ (rc_pc' # rc_pc /\ rc_pc = "put_info") =>
                 android_queue' = Append(android_queue,
                                    [cat |-> "info", value |-> "You are reconnected!"])
           /\ (rc_pc' # rc_pc /\ rc_pc = "put_mode") =>
                 android_queue' = Append(android_queue,
                    [cat |-> "mode",
                     value |-> IF robot_mode' = 1 THEN "path" ELSE "manual"])
           /\ (rc_pc' # rc_pc /\ rc_pc \notin {"put_info", "put_mode"}) =>
                 android_queue' = android_queue]_vars

\* a second reconnection has restarted both processes in Path mode and its
\* two messages are in the outbound queue
C12_Witness ==
    /\ rc_pc = "buzz2" /\ drops_left = 0 /\ robot_mode = 1
    /\ proc_recv_android = 1 /\ proc_android_sender = 1
    /\ android_queue = << [cat |-> "info", value |-> "You are reconnected!"],
                          [cat |-> "mode", value |-> "path"] >>

\* C26: whenever the robot mode is Manual the unpause event is set.
C26_ManualRunnable == robot_mode = 0 => unpause

\* C28: the step that processes a NOOP transmits nothing, puts nothing on the
\* action queue or the outbound queue, leaves the movement lock released and
\* takes the sequencer back to the retrieval of the next command.
C28_NoopFrame ==
    [][(cf_pc = "dispatch" /\ cf_pc' # "dispatch" /\ NotBeforeNoop(cf_command.cmd)
          /\ StartsWith(cf_command.cmd, NOOP)) =>
          /\ stm_link' = stm_link /\ cf_sent' = cf_sent
          /\ rpi_action_queue' = rpi_action_queue
          /\ android_queue' = android_queue
          /\ ~movement_lock'
          /\ cf_pc' = "get"]_vars

\* C29: a controller message without the ACK prefix leaves the movement lock,
\* the robot mode, the path queue and the outbound queue unchanged, and the
\* listener is at its receive again.
C29_UnknownIgnored ==
    [][unknown_left' # unknown_left =>
          /\ movement_lock' = movement_lock
          /\ robot_mode' = robot_mode
          /\ path_queue' = path_queue
          /\ android_queue' = android_queue
          /\ stm_pc = "recv" /\ stm_pc' = "recv"]_vars

\* a message without the ACK prefix has arrived while the lock was held for a
\* transmitted command, and the lock is still held
C29_Witness ==
    /\ unknown_left < MaxUnknown
    /\ movement_lock /\ cf_pc = "get" /\ cf_sent > 0
    /\ \E i \in DOMAIN stm_link : stm_link[i].id = cf_sent

C25_OutboundFifo ==
    [][/\ sent_no' # sent_no =>
             (sent_no' > sent_no /\ sent_no' = snd_no /\ proc_android_sender = 1)
       /\ aq_taken' # aq_taken =>
             /\ proc_android_sender = 1
             /\ android_queue # << >>
             /\ android_queue' = Tail(android_queue)
             /\ snd_msg' = Head(android_queue)
             /\ snd_no' = aq_taken + 1 /\ aq_taken' = aq_taken + 1
       /\ (android_queue' # android_queue /\ aq_taken' = aq_taken) =>
             /\ Len(android_queue') > Len(android_queue)
             /\ SubSeq(android_queue', 1, Len(android_queue)) = android_queue]_vars

\* a reconnection cycle is over and the new sender has transmitted the last
\* of at least three messages, the mode message of the cycle
C25_Witness ==
    /\ rc_pc = "wait" /\ ~android_dropped /\ drops_left < MaxDrops
    /\ android_queue = << >> /\ snd_pc = "get"
    /\ aq_taken >= 3 /\ sent_no = aq_taken

C24_ConsumedOnce ==
    \A k \in 1 .. 2 :
        /\ arrow_requests[k] <= 1
        /\ arrow_reads[k] <= 1
        /\ arrow_reads[k] > 0 => arrow_requests[k] = 1

\* C30: in the clearing of obstacle 1, the three parts of the clearing of
\* obstacle 2 and the return home, the command a step puts for the result d is
\* the command the "38" branch puts at that position, with L and R exchanged
\* when d is "39" and unchanged for every other d; and the drive along the
\* obstacle watches the right proximity flag for "39" and the left one
\* otherwise: it puts FW10 only while the watched flag is 0 and leaves its
\* loop only when it is 1.
C30_Mirror ==
    [][LET d == IF ra_pc = "cfo_put" THEN first_arrow_dir ELSE second_arrow_dir
           Swap(c) == IF c[2] = "L" THEN [c EXCEPT ![2] = "R"]
                      ELSE IF c[2] = "R" THEN [c EXCEPT ![2] = "L"] ELSE c
           Mirrored(c) == IF d = "39" THEN Swap(c) ELSE c
           watched == IF d = "39" THEN ir_right_is_clear ELSE ir_left_is_clear
           put == command_queue'[Len(command_queue')].cmd
       IN  /\ next_id' # next_id =>
                /\ ra_pc = "cfo_put" => put = Mirrored(ClearFirstObstacleScript("38")[fc_i + 1])
                /\ ra_pc = "p1_turn" => put = Mirrored(P1Turn("38")[1])
                /\ ra_pc \in {"mp_first_put", "mp_loop", "mp_final"} => put = Mirrored(FW10)
                /\ ra_pc = "p1_width" => put = Mirrored(P1Width("38")[fc_i + 1])
                /\ ra_pc = "p2_turn" => put = Mirrored(P2Script("38", total_xdist)[fc_i + 1])
                /\ ra_pc = "p3_turn" => put = Mirrored(P3Script("38")[1])
                /\ ra_pc = "rh_turn_put" => put = Mirrored(ReturnHomeTurnScript("38")[1])
                /\ ra_pc = "rh_rest" =>
                      put = Mirrored(ReturnHomeRestScript("38", total_xdist)[fc_i + 1])
           /\ (ra_pc = "mp_first" /\ ra_pc' # ra_pc) =>
                 (ra_pc' = "mp_loop" <=> watched = 1)
           /\ (ra_pc = "mp_loop" /\ (ra_pc' # ra_pc \/ next_id' # next_id)) =>
                 (next_id' # next_id <=> watched = 0)
      ]_vars

\* a run on the result "39" has driven along obstacle 2 on the right flag and
\* has put the last command of return_home, FL30
C30_Witness ==
    /\ ra_pc = "rh2_check" /\ second_arrow_dir = "39" /\ total_xdist >= 20
    /\ ir_left_is_clear = 1
    /\ command_queue # << >>
    /\ command_queue[Len(command_queue)].cmd = FL30

\* C23: a fastest run triggered by FC01 is never ended before its buzzer
\* code: the receiver that runs it has not stopped on an exception while ZZ02
\* is still unsent (a run ended that way sends ZZ02 under no scheduling).
C23_RunReachesBuzzer ==
    (ra_msg = [cat |-> "manual", value |-> FC01] /\ ra_pc = "raised") =>
        \E i \in DOMAIN stm_link : stm_link[i].cmd = ZZ02 /\ stm_link[i].src = "fastest_car"

\* C22: a reconnection cycle cancels the operator receiver and the operator
\* sender and nothing else: no step of the handler changes the robot mode,
\* the motion lock, the unpause gate, the command, path or action queue or
\* the position of the sequencer, the listener, the dispatcher or a sensor
\* loop; it asks only the receiver and the sender to end; and no fastest run
\* in progress is ended by a cancellation.
C22_ReconnectFrame ==
    [][/\ rc_pc' # rc_pc =>
            /\ robot_mode' = robot_mode /\ movement_lock' = movement_lock
            /\ unpause' = unpause
            /\ command_queue' = command_queue /\ path_queue' = path_queue
            /\ rpi_action_queue' = rpi_action_queue
            /\ cf_pc' = cf_pc /\ stm_pc' = stm_pc /\ rpi_pc' = rpi_pc
            /\ us_vars' = us_vars /\ ir_vars' = ir_vars
            /\ kill_sent' \subseteq kill_sent \cup {"recv_android", "android_sender"}
       /\ (ra_msg = [cat |-> "manual", value |-> FC01] /\ ra_pc \notin {"recv", "raised"}) =>
            proc_recv_android' >= proc_recv_android
      ]_vars

\* C38: the long-range flag that return_home consults is 1 in every state,
\* and no command of the secondary correction maneuver (BL30 or its mirror
\* BR30) is in the command queue, whatever the front sensor has sampled.
C38_NoCorrection ==
    /\ ultrasonic_is_clear_samula = 1
    /\ \A i \in DOMAIN command_queue :
          command_queue[i].cmd \notin {BL30, BR30}

\* return_home has put all its commands after the front sensor sampled an
\* obstacle at 5 cm twice and reported blocked
C38_Witness ==
    /\ ra_pc = "rh2_check" /\ compensate_ydist = 50 /\ ultrasonic_is_clear = 0
    /\ samples_left = 0 /\ Len(command_queue) >= 2

\* C39: when clear_second_obstacle_p2 has put its commands for the lateral
\* distance x, every command after the turn is FW followed by decimal digits
\* that spell a number 0 .. 99, and the numbers add up to 2x + 30, plus 20
\* when x <= 20.
C39_CrossingChunks ==
    LET DigitOf(c) == CHOOSE d \in 0 .. 9 : <<"0", "1", "2", "3", "4", "5", "6", "7", "8", "9">>[d + 1] = c
        Magnitude(cmd) ==
            IF Len(cmd) = 4 THEN 10 * DigitOf(cmd[3]) + DigitOf(cmd[4])
            ELSE 100 * DigitOf(cmd[3]) + 10 * DigitOf(cmd[4]) + DigitOf(cmd[5])
        forward == Tail(command_queue)
        Total ==
            Magnitude(forward[1].cmd)
              + (IF Len(forward) >= 2 THEN Magnitude(forward[2].cmd) ELSE 0)
              + (IF Len(forward) >= 3 THEN Magnitude(forward[3].cmd) ELSE 0)
    IN  (ra_pc = "mp_first" /\ fc_ret = << "p3_turn" >>) =>
          /\ Len(forward) \in 1 .. 3
          /\ \A i \in DOMAIN forward :
               /\ forward[i].cmd[1] = "F" /\ forward[i].cmd[2] = "W"
               /\ Magnitude(forward[i].cmd) \in 0 .. 99
          /\ Total = 2 * total_xdist + 30 + (IF total_xdist <= 20 THEN 20 ELSE 0)

\* C37: the first classification step of a fastest run enqueues an outbound
\* message exactly when the request failed, that is when the result it stores
\* is None; it is then one error message, appended once; the run goes on to
\* clear_first_obstacle either way; and on the result None every command of
\* the clearing script is the command of the "38" script at that position.
C37_FailedClassification ==
    [][/\ (ra_pc = "detect1" /\ ra_pc' # "detect1") =>
            /\ ra_pc' = "cfo"
            /\ first_arrow_dir' = "None" <=> android_queue' # android_queue
            /\ first_arrow_dir' = "None" =>
                  android_queue' = Append(android_queue,
                     [cat |-> "error",
                      value |-> "Something went wrong when requesting path from image-rec API. Please try again."])
       /\ (ra_pc = "cfo_put" /\ next_id' # next_id /\ first_arrow_dir = "None") =>
            command_queue'[Len(command_queue')].cmd = << FR30, FL30, FL30, FR30 >>[fc_i + 1]
      ]_vars

\* the request failed, its error message waits in the outbound queue and the
\* right-hand script has been put
C37_Witness ==
    /\ ra_pc = "gap_test" /\ first_arrow_dir = "None"
    /\ Len(android_queue) = 1 /\ android_queue[1].cat = "error"
    /\ command_queue # << >> /\ command_queue[Len(command_queue)].cmd = FR30

\* C34: while the receiver is inside a fastest run (it took FC01 and has not
\* come back to its receive loop) no step takes an operator message, and no
\* step adds to the action queue or to the path queue.
C34_RunAdmitsNothing ==
    [][(ra_msg = [cat |-> "manual", value |-> FC01] /\ ra_pc \notin {"recv", "raised", "killed"}) =>
          /\ msgs_left' = msgs_left
          /\ Len(rpi_action_queue') <= Len(rpi_action_queue)
          /\ Len(path_queue') <= Len(path_queue)
      ]_vars

\* the run has put the script of obstacle 1 while an operator message waits
C34_Witness ==
    /\ ra_msg = [cat |-> "manual", value |-> FC01] /\ ra_pc = "gap_test"
    /\ msgs_left = 1 /\ next_id > 4

\* C31: in an approach phase (move_until_obstacle_us, return_home_2) FW-- is
\* put only on the path taken when the front flag was 1 at the entry test;
\* the waiting loop is left only on reading the flag as 0, and only that leads
\* to the put of STOP; the put of STOP is the step with which the phase
\* returns, so it happens once and after any FW-- of the phase; and the phase
\* returns with no other step.
C31_Approach ==
    [][LET put == command_queue'[Len(command_queue')].cmd
           Has(st, pc) == \E i \in DOMAIN st : st[i] = pc
           inside == {"mu_check", "mu_put_fw", "mu_wait", "mu_put_stop",
                      "rh2_check", "rh2_wait", "rh2_stop"}
           clearing == {"fcq_cmd_empty", "fcq_cmd_get", "fcq_path_empty", "fcq_path_get"}
       IN  /\ (next_id' # next_id /\ put = FW__) =>
                 /\ ra_pc \in {"mu_put_fw", "rh2_check"}
                 /\ ra_pc = "rh2_check" => ultrasonic_is_clear = 1
           /\ (Has(fc_ret', "mu_put_fw") /\ ~Has(fc_ret, "mu_put_fw")) =>
                 (ra_pc = "mu_check" /\ ultrasonic_is_clear = 1)
           /\ (ra_pc = "mu_check" /\ ra_pc' # ra_pc /\ ultrasonic_is_clear = 0) =>
                 (ra_pc' = "mu_wait" /\ next_id' = next_id)
           /\ (ra_pc = "rh2_check" /\ ra_pc' # ra_pc) =>
                 (ra_pc' = "rh2_wait" /\ (next_id' # next_id <=> ultrasonic_is_clear = 1))
           /\ (ra_pc \in {"mu_wait", "rh2_wait"} /\ ra_pc' # ra_pc) =>
                 (ultrasonic_is_clear = 0 /\ next_id' = next_id)
           /\ \A pc \in {"mu_put_stop", "rh2_stop"} :
                 (Has(fc_ret', pc) /\ ~Has(fc_ret, pc)) =>
                     ra_pc = (IF pc = "mu_put_stop" THEN "mu_wait" ELSE "rh2_wait")
           /\ (next_id' # next_id /\ put = STOP) =>
                 (ra_pc \in {"mu_put_stop", "rh2_stop"} /\ ra_pc' \notin inside \cup clearing)
           /\ (ra_pc \in inside /\ ra_pc' \notin inside \cup clearing) =>
                 (next_id' # next_id /\ put = STOP)
      ]_vars

\* the second approach has returned: it found the flag clear, put FW--, saw
\* the flag blocked after two close samples and put STOP
C31_Witness ==
    /\ ra_pc = "detect2" /\ samples_left = 0 /\ ultrasonic_is_clear = 0
    /\ next_id = 9 /\ command_queue # << >>
    /\ command_queue[Len(command_queue)] = [cmd |-> STOP, id |-> 8]

\* C36: no outbound message is lost: whenever the sender stands at the top of
\* its loop, holding nothing, the message it took last from the outbound
\* queue has been transmitted (a message that is in no queue and held by no
\* task is transmitted by no later step).
C36_TakenIsSent ==
    (snd_pc = "get" /\ snd_msg = NoMessage) => sent_no = aq_taken

\* C35: the clearing of the dropped flag at the end of a reconnection cycle
\* erases no drop signalled after the reconnect of that cycle: when a drop
\* has happened since the handler reconnected, the flag is still set after
\* the handler's clear, so that a further cycle runs for it.
C35_LateDropKept ==
    [][(rc_pc = "clear" /\ rc_pc' = "wait" /\ drops_left < connect_drops) =>
          android_dropped']_vars

\* C32: the dispatcher is never stuck inside clear_queues: it does not wait in
\* command_queue.get() on an empty command queue when the receiver has taken
\* its last operator message and stands at its receive loop, so that no task
\* will put a command again.
C32_DrainNeverStuck ==
    ~(/\ rpi_pc = "cq_cmd_get" /\ command_queue = << >>
      /\ ra_pc = "recv" /\ msgs_left = 0)

\* C33: the sequencer is never stuck on the loaded path before FIN: it does
\* not wait for the motion lock with a path command in hand while the lock is
\* held, no command is on the controller link to be acknowledged, the
\* listener and the dispatcher are idle with no action queued and the
\* operator has nothing more to send, so that no task will release the lock.
C33_SequencerNotStuck ==
    ~(/\ cf_pc = "acquire" /\ movement_lock /\ robot_mode = 1
      /\ stm_link = << >> /\ stm_pc = "recv"
      /\ rpi_pc = "get" /\ rpi_action_queue = << >>
      /\ ra_pc = "recv" /\ msgs_left = 0
      /\ \E i \in DOMAIN command_queue : command_queue[i].cmd = FIN)

====
